---- MODULE Spec2Model ----
(***************************************************************************)
(* VeinMiner-Endstone: the vein search (find_vein), the break-event gate   *)
(* (on_block_break) and the batch processing of a discovered vein          *)
(* (process_vein_mining), modelled from vein_miner_plugin.py.              *)
(*                                                                         *)
(* A block position is a triple <<x, y, z>>.  A world is a function from a *)
(* finite set of positions to block ids; every other position holds air.   *)
(***************************************************************************)
EXTENDS Integers, Sequences, FiniteSets, TLC

VARIABLES
    world,                  \* position -> block id, the host's block storage
    config,                 \* the values load_config leaves in the plugin's attributes
    start,                  \* position of the block handed to find_vein
    fv,                     \* find_vein's locals: vein, visited, queue, iterations, pc
    now,                    \* int(time.time() * 1000)
    last_vein_mine,         \* player id -> timestamp
    processing_vein,        \* players currently processing veins
    last_error_message,     \* player id -> timestamp
    last_cooldown_message,  \* player id -> timestamp
    daily_vein_count,       \* player id -> count
    daily_block_count,      \* player id -> count
    minute_vein_count,      \* player id -> list of timestamps
    blocked_players,        \* player id -> unblock timestamp
    tool_validation_cache,  \* cache key -> is_proper_tool's answer
    disabled_players,       \* players who toggled vein mining off
    op,                     \* the locals of the process_vein_mining call in flight
    ev,                     \* what the latest on_block_break call did (observation)
    events,                 \* number of break events delivered so far
    deviations,             \* number of failed host calls, unusual events and reloads so far
    ticks,                  \* number of time steps so far
    neighbor_offsets,       \* self._neighbor_offsets, the cached offset list or None
    cooldown_notices,       \* player id -> the latest two "cooldown-active" notices sent (observation)
    daily_reset_scheduled,  \* on_enable handed reset_daily_limits to the scheduler
    stats_tracker,          \* the StatisticsTracker: its settings, player_stats, achieved_milestones
    tracker_log             \* player id -> the counts recorded and the milestones announced (observation)

veinVars == <<world, config, start, fv>>

pluginVars ==
    <<last_vein_mine, processing_vein, last_error_message, last_cooldown_message,
      daily_vein_count, daily_block_count, minute_vein_count, blocked_players,
      tool_validation_cache>>

statsVars == <<stats_tracker, tracker_log>>

vars ==
    <<world, config, start, fv, now, last_vein_mine, processing_vein,
      last_error_message, last_cooldown_message, daily_vein_count, daily_block_count,
      minute_vein_count, blocked_players, tool_validation_cache, disabled_players, op,
      ev, events, deviations, ticks, neighbor_offsets, cooldown_notices,
      daily_reset_scheduled, stats_tracker, tracker_log>>

----------------------------------------------------------------------------
(* Program constants                                                       *)

MIN_WORLD_HEIGHT == -64
MAX_WORLD_HEIGHT == 320
DEFAULT_MAX_BLOCKS == 64

UNLIMITED_MAX_BLOCKS == 4096

MAX_BATCH_SIZE == 100
NEIGHBOR_RANGE == 1
MAX_OFFSETS == 512
MAX_PATTERN_RADIUS == 6
MAX_PATTERN_RANGE == 16
MIN_ITERATIONS == 100
ITERATIONS_PER_BLOCK == 10
\* DEFAULT_DURABILITY_MULTIPLIER = 1.0, in hundredths
DEFAULT_DURABILITY_MULTIPLIER_PCT == 100
COOLDOWN_MS == 100
BATCH_SIZE == 10
RATE_WINDOW_MS == 60000
COOLDOWN_NOTICE_MS == 1000
ERROR_NOTICE_MS == 5000
MAX_CACHE_SIZE == 1000
\* entries older than 5 minutes are dropped by cleanup_cache
STALE_MS == 300000

\* Python's None, for the attributes that hold it
None == "None"

AIR == "minecraft:air"
IRON_ORE == "minecraft:iron_ore"
STONE == "minecraft:stone"

----------------------------------------------------------------------------
(* Bounds of the model                                                     *)

\* The small worlds span x in 0..GridW and the three heights around the
\* upper world limit, at z = 0.
GridW == 1

\* The worlds of the break-event handler are a line of blocks x in 0..LineW.
LineW == 2

\* At most MaxEvents break events are delivered, at most MaxDeviations times
\* a host call fails, an event differs from the normal one or the
\* configuration is reloaded, and at most MaxTicks time steps are taken.
MaxEvents == 3
MaxDeviations == 1
MaxTicks == 2

\* The clock starts at StartTime and advances by one of Deltas.
StartTime == 1000000
Deltas == {50, 60000}

----------------------------------------------------------------------------
(* Helpers                                                                 *)

Abs(n) == IF n < 0 THEN -n ELSE n

Max(a, b) == IF a >= b THEN a ELSE b

Min(a, b) == IF a <= b THEN a ELSE b

Range(s) == {s[i] : i \in 1..Len(s)}

\* dimension.get_block_at(x, y, z).type
BlockAt(w, p) == IF p \in DOMAIN w THEN w[p] ELSE AIR

----------------------------------------------------------------------------
(* Configuration: the attributes set in __init__ and load_config           *)

DefaultConfig ==
    [ max_blocks |-> DEFAULT_MAX_BLOCKS,
      max_reach_distance |-> 100,
      mining_pattern |-> "adjacent",
      pattern_radius |-> 1,
      include_diagonals |-> TRUE,
      vertical_range |-> 4,
      horizontal_range |-> 4,
      min_vein_size |-> 2,
      cooldown_ms |-> COOLDOWN_MS,
      batch_size |-> BATCH_SIZE,
      auto_pickup_enabled |-> TRUE,
      activation_mode |-> "sneak",
      per_block_permissions |-> FALSE,
      require_correct_tool |-> TRUE,
      disabled_worlds |-> {},
      enable_limits |-> FALSE,
      max_veins_per_day |-> 1000,
      max_blocks_per_day |-> 10000,
      max_veins_per_minute |-> 60,
      temporary_block_duration |-> 5,
      xp_enabled |-> TRUE,
      xp_bonus_enabled |-> TRUE,
      xp_bonus_per_blocks |-> 10,
      xp_bonus_multiplier_pct |-> 5,
      durability_multiplier_pct |-> DEFAULT_DURABILITY_MULTIPLIER_PCT,
      respect_unbreaking |-> TRUE,
      break_on_exceed |-> TRUE,
      auto_smelt_enabled |-> FALSE,
      auto_smelt_require_fortune |-> FALSE,
      auto_smelt_whitelist |-> {},
      auto_smelt_give_xp |-> TRUE,
      auto_smelt_xp_multiplier_pct |-> 50 ]

----------------------------------------------------------------------------
(* build_neighbor_offsets                                                  *)

\* for dx in range(-r, r+1): for dy in range(-r, r+1): for dz in range(-r, r+1)
CubeLoop(r) ==
    LET n == 2 * r + 1
    IN  [i \in 1..(n * n * n) |->
            << ((i - 1) \div (n * n)) - r,
               (((i - 1) \div n) % n) - r,
               ((i - 1) % n) - r >>]

\* for dx in range(-r, r+1): for dz in range(-r, r+1), offsets (dx, 0, dz)
PlaneLoop(r) ==
    LET n == 2 * r + 1
    IN  [i \in 1..(n * n) |-> << ((i - 1) \div n) - r, 0, ((i - 1) % n) - r >>]

\* for dy in range(-r, r+1), offsets (0, dy, 0)
ColumnLoop(r) == [i \in 1..(2 * r + 1) |-> <<0, i - 1 - r, 0>>]

NonZero(o) == ~(o[1] = 0 /\ o[2] = 0 /\ o[3] = 0)

\* A faulty variant of Manhattan: the largest coordinate, not their sum.
ManhattanAsLargest(o) == Max(Abs(o[1]), Max(Abs(o[2]), Abs(o[3])))

\* abs(dx) + abs(dy) + abs(dz)
Manhattan(o) == Abs(o[1]) + Abs(o[2]) + Abs(o[3])

NormSq(o) == o[1] * o[1] + o[2] * o[2] + o[3] * o[3]

\* The list the loops of the configured pattern append to.
PatternOffsets(c) ==
    IF c.mining_pattern = "vertical"
    THEN SelectSeq(ColumnLoop(c.vertical_range), NonZero)
    ELSE IF c.mining_pattern = "horizontal"
    THEN SelectSeq(PlaneLoop(c.horizontal_range),
                   LAMBDA o: NonZero(o)
                             /\ (c.include_diagonals \/ Manhattan(o) = 1))
    ELSE IF c.mining_pattern = "cube"
    THEN SelectSeq(CubeLoop(c.pattern_radius), NonZero)
    ELSE IF c.mining_pattern = "sphere"
    THEN SelectSeq(CubeLoop(c.pattern_radius),
                   LAMBDA o: NonZero(o)
                             /\ NormSq(o) <= c.pattern_radius * c.pattern_radius)
    ELSE SelectSeq(CubeLoop(NEIGHBOR_RANGE),
                   LAMBDA o: NonZero(o)
                             /\ (c.include_diagonals \/ Manhattan(o) = 1))

\* A faulty variant of build_neighbor_offsets: the list is returned as the
\* loops left it, without the cap.
build_neighbor_offsets_uncapped(c) == PatternOffsets(c)

build_neighbor_offsets(c) ==
    LET offsets == PatternOffsets(c)
    IN  IF Len(offsets) > MAX_OFFSETS THEN SubSeq(offsets, 1, MAX_OFFSETS) ELSE offsets

----------------------------------------------------------------------------
(* find_vein                                                               *)

Add(p, o) == <<p[1] + o[1], p[2] + o[2], p[3] + o[3]>>

\* dx*dx + dy*dy + dz*dz of a position relative to the start
DistSq(p, s) == NormSq(<<p[1] - s[1], p[2] - s[2], p[3] - s[3]>>)

\* A faulty variant of InHeight: the world-height test dropped.
InHeightNoCheck(p) == TRUE

\* not (ny < MIN_WORLD_HEIGHT or ny > MAX_WORLD_HEIGHT)
InHeight(p) == ~(p[2] < MIN_WORLD_HEIGHT \/ p[2] > MAX_WORLD_HEIGHT)

\* dist_sq > max_distance_sq is the test that skips a dequeued position
InReach(c, p, s) == ~(DistSq(p, s) > c.max_reach_distance * c.max_reach_distance)

\* A faulty variant of max_iterations: twice the cap.
max_iterations_doubled(c) == 2 * Max(MIN_ITERATIONS, c.max_blocks * ITERATIONS_PER_BLOCK)

\* max_iterations = max(100, self.max_blocks * 10)
max_iterations(c) == Max(MIN_ITERATIONS, c.max_blocks * ITERATIONS_PER_BLOCK)

\* A faulty variant of FvInit: the start position is not marked as visited.
FvInitUnvisited(s) ==
    [ vein |-> <<>>, visited |-> {}, queue |-> <<s>>, iterations |-> 0,
      pc |-> "loop" ]

\* The locals of find_vein before the first pass of its loop.  vein is kept
\* in insertion order; the set find_vein returns is Range(vein).
FvInit(s) ==
    [ vein |-> <<>>, visited |-> {s}, queue |-> <<s>>, iterations |-> 0,
      pc |-> "loop" ]

\* while queue and len(vein) < self.max_blocks
FvLoopCond(c, f) == f.queue # <<>> /\ Len(f.vein) < c.max_blocks

\* A faulty variant of popleft: the position enqueued last is taken.
pop(queue) ==
    [ item |-> queue[Len(queue)], rest |-> SubSeq(queue, 1, Len(queue) - 1) ]

\* cx, cy, cz = queue.popleft()
popleft(queue) == [ item |-> Head(queue), rest |-> Tail(queue) ]

\* One pass of the loop body, for the start block's type block_type and
\* the cached list of offsets, neighbors = self._neighbor_offsets.
FvPass(w, c, s, block_type, f, neighbors) ==
    LET it == f.iterations + 1
        cur == popleft(f.queue).item
        rest == popleft(f.queue).rest
        cand == [i \in 1..Len(neighbors) |-> Add(cur, neighbors[i])]
        fresh == SelectSeq(cand, LAMBDA p: InHeight(p) /\ p \notin f.visited)
        matching == SelectSeq(fresh, LAMBDA p: BlockAt(w, p) = block_type)
    IN  IF it > max_iterations(c)
        THEN [f EXCEPT !.iterations = it, !.pc = "capped"]
        ELSE IF ~InReach(c, cur, s)
        THEN [f EXCEPT !.iterations = it, !.queue = rest]
        ELSE IF BlockAt(w, cur) # block_type
        THEN [f EXCEPT !.iterations = it, !.queue = rest]
        ELSE IF Len(f.vein) + 1 >= c.max_blocks
        THEN [f EXCEPT !.iterations = it, !.queue = rest,
                       !.vein = Append(f.vein, cur), !.pc = "full"]
        ELSE [f EXCEPT !.iterations = it,
                       !.queue = rest \o matching,
                       !.vein = Append(f.vein, cur),
                       !.visited = f.visited \cup Range(fresh)]

\* One pass with the list a search fills the cache with.
FvBody(w, c, s, block_type, f) ==
    FvPass(w, c, s, block_type, f, build_neighbor_offsets(c))

FvRunning(c, f) == f.pc = "loop" /\ FvLoopCond(c, f)

\* find_vein run to its return, for callers that use only the result.
RECURSIVE FvRun(_, _, _, _, _)
FvRun(w, c, s, block_type, f) ==
    IF FvRunning(c, f) THEN FvRun(w, c, s, block_type, FvBody(w, c, s, block_type, f))
    ELSE f

find_vein(w, c, s) == Range(FvRun(w, c, s, BlockAt(w, s), FvInit(s)).vein)

\* if self._neighbor_offsets is None: self._neighbor_offsets = self.build_neighbor_offsets()
CacheOffsets(c, cached) == IF cached = None THEN build_neighbor_offsets(c) ELSE cached

----------------------------------------------------------------------------
(* Per-player state of the plugin                                          *)

Players == {"p1", "p2"}

\* A Python dict as a function on the set of its keys.
EmptyDict == [k \in {} |-> 0]

Get(d, k, default) == IF k \in DOMAIN d THEN d[k] ELSE default

Put(d, k, v) == [x \in DOMAIN d \cup {k} |-> IF x = k THEN v ELSE d[x]]

Del(d, k) == [x \in DOMAIN d \ {k} |-> d[x]]

----------------------------------------------------------------------------
(* StatisticsTracker                                                       *)

\* Default milestones if not configured
DefaultThresholds == <<100, 500, 1000, 5000, 10000>>

\* PlayerStats as the dataclass creates it.
NewPlayerStats == [total_veins |-> 0, total_blocks |-> 0, largest_vein |-> 0]

\* StatisticsTracker.__init__ without a persistence backend.
NewTracker(enabled, milestones_enabled, thresholds) ==
    [ enabled |-> enabled,
      milestones_enabled |-> milestones_enabled,
      milestone_thresholds |-> IF thresholds = <<>> THEN DefaultThresholds ELSE thresholds,
      player_stats |-> EmptyDict,
      achieved_milestones |-> EmptyDict ]

\* A faulty variant of JustPassed: a total that lands on the threshold does not count.
JustPassedStrict(previous_blocks, threshold, current_blocks) ==
    previous_blocks < threshold /\ threshold < current_blocks

\* previous_blocks < threshold <= current_blocks
JustPassed(previous_blocks, threshold, current_blocks) ==
    previous_blocks < threshold /\ threshold <= current_blocks

\* The loop of check_milestones from the i-th threshold on; announced lists
\* the thresholds announced so far.
RECURSIVE MilestoneLoop(_, _, _, _, _, _)
MilestoneLoop(tracker, uuid, previous_blocks, current_blocks, i, announced) ==
    IF i > Len(tracker.milestone_thresholds)
    THEN [tracker |-> tracker, announced |-> announced]
    ELSE LET threshold == tracker.milestone_thresholds[i]
             achieved == tracker.achieved_milestones[uuid]
         IN  IF JustPassed(previous_blocks, threshold, current_blocks)
                /\ threshold \notin achieved
             THEN MilestoneLoop([tracker EXCEPT !.achieved_milestones[uuid] =
                                                   achieved \cup {threshold}],
                                uuid, previous_blocks, current_blocks, i + 1,
                                Append(announced, threshold))
             ELSE MilestoneLoop(tracker, uuid, previous_blocks, current_blocks, i + 1,
                                announced)

check_milestones(tracker, uuid, previous_blocks, current_blocks) ==
    LET tracker1 == IF uuid \notin DOMAIN tracker.achieved_milestones
                    THEN [tracker EXCEPT !.achieved_milestones = Put(@, uuid, {})]
                    ELSE tracker
    IN  MilestoneLoop(tracker1, uuid, previous_blocks, current_blocks, 1, <<>>)

\* record_vein_mine: the tracker after the call and the milestones announced.
record_vein_mine(tracker, uuid, block_count) ==
    IF ~tracker.enabled
    THEN [tracker |-> tracker, announced |-> <<>>]
    ELSE LET stats == Get(tracker.player_stats, uuid, NewPlayerStats)
             stats1 == [ total_veins |-> stats.total_veins + 1,
                         total_blocks |-> stats.total_blocks + block_count,
                         largest_vein |-> IF block_count > stats.largest_vein
                                          THEN block_count ELSE stats.largest_vein ]
             tracker1 == [tracker EXCEPT !.player_stats = Put(@, uuid, stats1)]
         IN  IF tracker.milestones_enabled
             THEN check_milestones(tracker1, uuid, stats.total_blocks, stats1.total_blocks)
             ELSE [tracker |-> tracker1, announced |-> <<>>]

\* The tool validation cache: the entries under the keys the model looks
\* up, and the number of entries under other keys.
EmptyCache == [known |-> EmptyDict, others |-> 0]

\* The plugin's mutable per-player attributes, as handed from check to check.
Self ==
    [ last_vein_mine |-> last_vein_mine,
      processing_vein |-> processing_vein,
      last_error_message |-> last_error_message,
      last_cooldown_message |-> last_cooldown_message,
      daily_vein_count |-> daily_vein_count,
      daily_block_count |-> daily_block_count,
      minute_vein_count |-> minute_vein_count,
      blocked_players |-> blocked_players,
      tool_validation_cache |-> tool_validation_cache ]

\* A faulty variant of is_player_blocked: the block still holds at its unblock time.
is_player_blocked_strict(self, player_id, current_time) ==
    IF player_id \notin DOMAIN self.blocked_players
    THEN [result |-> FALSE, self |-> self]
    ELSE IF current_time > self.blocked_players[player_id]
    THEN [result |-> FALSE,
          self |-> [self EXCEPT !.blocked_players = Del(@, player_id)]]
    ELSE [result |-> TRUE, self |-> self]

\* is_player_blocked: an expired entry is deleted by the check itself.
is_player_blocked(self, player_id, current_time) ==
    IF player_id \notin DOMAIN self.blocked_players
    THEN [result |-> FALSE, self |-> self]
    ELSE IF current_time >= self.blocked_players[player_id]
    THEN [result |-> FALSE,
          self |-> [self EXCEPT !.blocked_players = Del(@, player_id)]]
    ELSE [result |-> TRUE, self |-> self]

\* A faulty variant of block_player_temporarily: every player with a
\* rate window is blocked together with the offender.
block_player_temporarily_everyone(self, c, player_id, current_time) ==
    LET until == current_time + (c.temporary_block_duration * 60 * 1000)
        hit == DOMAIN self.minute_vein_count \cup {player_id}
    IN  [self EXCEPT !.blocked_players =
            [q \in DOMAIN @ \cup hit |-> IF q \in hit THEN until ELSE @[q]]]

block_player_temporarily(self, c, player_id, current_time) ==
    [self EXCEPT !.blocked_players =
        Put(@, player_id, current_time + (c.temporary_block_duration * 60 * 1000))]

\* A faulty variant of RateLimitReached: the limit is one operation too lenient.
RateLimitReachedLenient(c, count) == count > c.max_veins_per_minute

\* len(self.minute_vein_count[player_id]) >= self.max_veins_per_minute
RateLimitReached(c, count) == count >= c.max_veins_per_minute

\* A faulty variant of the pruning: a timestamp of exactly one minute ago is kept.
PruneWindowInclusive(window, current_time) ==
    SelectSeq(window, LAMBDA t: current_time - t <= RATE_WINDOW_MS)

\* The timestamps of a rate window that survive the pruning at current_time.
PruneWindow(window, current_time) ==
    SelectSeq(window, LAMBDA t: current_time - t < RATE_WINDOW_MS)

\* A faulty variant of check_rate_limits: nobody is limited.
check_rate_limits_off(self, c, player_id, current_time) ==
    [result |-> TRUE, self |-> self]

\* check_rate_limits: result is TRUE if the player is within the limit.
check_rate_limits(self, c, player_id, current_time) ==
    IF c.max_veins_per_minute <= 0
    THEN [result |-> TRUE, self |-> self]
    ELSE LET kept == PruneWindow(Get(self.minute_vein_count, player_id, <<>>),
                                 current_time)
             self1 == [self EXCEPT !.minute_vein_count = Put(@, player_id, kept)]
         IN  [result |-> ~RateLimitReached(c, Len(kept)), self |-> self1]

\* A faulty variant of check_daily_limits: the block quota is not checked.
check_daily_limits_veins_only(self, c, player_id, block_count) ==
    \/ ~c.enable_limits
    \/ Get(self.daily_vein_count, player_id, 0) < c.max_veins_per_day

\* check_daily_limits: TRUE if the player is within the daily limits.
check_daily_limits(self, c, player_id, block_count) ==
    IF ~c.enable_limits THEN TRUE
    ELSE IF Get(self.daily_vein_count, player_id, 0) >= c.max_veins_per_day THEN FALSE
    ELSE IF Get(self.daily_block_count, player_id, 0) + block_count > c.max_blocks_per_day
    THEN FALSE
    ELSE TRUE

record_vein_usage(self, c, player_id, block_count, current_time) ==
    LET self1 == [self EXCEPT !.minute_vein_count =
                     Put(@, player_id,
                         Append(Get(@, player_id, <<>>), current_time))]
    IN  IF c.enable_limits
        THEN [self1 EXCEPT
                !.daily_vein_count = Put(@, player_id, Get(@, player_id, 0) + 1),
                !.daily_block_count = Put(@, player_id, Get(@, player_id, 0) + block_count)]
        ELSE self1

\* reload_configuration: the per-player state after the clear() calls.
reload_configuration(self) ==
    [self EXCEPT !.tool_validation_cache = EmptyCache,
                 !.last_vein_mine = EmptyDict,
                 !.processing_vein = {},
                 !.last_error_message = EmptyDict,
                 !.last_cooldown_message = EmptyDict]

----------------------------------------------------------------------------
(* Tools and rewards                                                       *)

\* A tool as the reward functions see it: its item id and the levels
\* get_enchantment_level finds for silk touch and fortune.
NoTool == [type |-> "none", silk_touch |-> 0, fortune |-> 0]

IronPickaxe == [type |-> "minecraft:iron_pickaxe", silk_touch |-> 0, fortune |-> 0]

\* load_vein_blocks with every category enabled, for the block ids of the model
vein_blocks == {IRON_ORE}

\* ore_drops of get_ore_drop
ore_drops ==
    [ coal_ore |-> "minecraft:coal", deepslate_coal_ore |-> "minecraft:coal",
      iron_ore |-> "minecraft:raw_iron", deepslate_iron_ore |-> "minecraft:raw_iron",
      copper_ore |-> "minecraft:raw_copper",
      deepslate_copper_ore |-> "minecraft:raw_copper",
      gold_ore |-> "minecraft:raw_gold", deepslate_gold_ore |-> "minecraft:raw_gold",
      nether_gold_ore |-> "minecraft:gold_nugget",
      redstone_ore |-> "minecraft:redstone",
      deepslate_redstone_ore |-> "minecraft:redstone",
      lit_redstone_ore |-> "minecraft:redstone",
      lit_deepslate_redstone_ore |-> "minecraft:redstone",
      lapis_ore |-> "minecraft:lapis_lazuli",
      deepslate_lapis_ore |-> "minecraft:lapis_lazuli",
      diamond_ore |-> "minecraft:diamond", deepslate_diamond_ore |-> "minecraft:diamond",
      emerald_ore |-> "minecraft:emerald", deepslate_emerald_ore |-> "minecraft:emerald",
      quartz_ore |-> "minecraft:quartz", nether_quartz_ore |-> "minecraft:quartz",
      ancient_debris |-> "minecraft:ancient_debris",
      oak_log |-> "minecraft:oak_log", birch_log |-> "minecraft:birch_log",
      spruce_log |-> "minecraft:spruce_log", jungle_log |-> "minecraft:jungle_log",
      acacia_log |-> "minecraft:acacia_log", dark_oak_log |-> "minecraft:dark_oak_log",
      crimson_stem |-> "minecraft:crimson_stem", warped_stem |-> "minecraft:warped_stem",
      mangrove_log |-> "minecraft:mangrove_log", cherry_log |-> "minecraft:cherry_log",
      oak_leaves |-> "minecraft:oak_leaves", spruce_leaves |-> "minecraft:spruce_leaves",
      birch_leaves |-> "minecraft:birch_leaves",
      jungle_leaves |-> "minecraft:jungle_leaves",
      acacia_leaves |-> "minecraft:acacia_leaves",
      dark_oak_leaves |-> "minecraft:dark_oak_leaves",
      mangrove_leaves |-> "minecraft:mangrove_leaves",
      cherry_leaves |-> "minecraft:cherry_leaves" ]

\* xp_values of calculate_ore_xp
xp_values ==
    [ coal_ore |-> 1, deepslate_coal_ore |-> 1, iron_ore |-> 1, deepslate_iron_ore |-> 1,
      copper_ore |-> 1, deepslate_copper_ore |-> 1, gold_ore |-> 1,
      deepslate_gold_ore |-> 1, redstone_ore |-> 2, lit_redstone_ore |-> 2,
      deepslate_redstone_ore |-> 2, lit_deepslate_redstone_ore |-> 2, lapis_ore |-> 3,
      deepslate_lapis_ore |-> 3, diamond_ore |-> 4, deepslate_diamond_ore |-> 4,
      emerald_ore |-> 5, deepslate_emerald_ore |-> 5, quartz_ore |-> 2,
      nether_quartz_ore |-> 2, nether_gold_ore |-> 1, ancient_debris |-> 2 ]

\* get_auto_smelt_outputs
auto_smelt_outputs ==
    [ iron_ore |-> "minecraft:iron_ingot", deepslate_iron_ore |-> "minecraft:iron_ingot",
      gold_ore |-> "minecraft:gold_ingot", deepslate_gold_ore |-> "minecraft:gold_ingot",
      nether_gold_ore |-> "minecraft:gold_ingot",
      copper_ore |-> "minecraft:copper_ingot",
      deepslate_copper_ore |-> "minecraft:copper_ingot",
      ancient_debris |-> "minecraft:netherite_scrap" ]

\* smelt_xp_values of get_smelt_xp_value, in tenths
smelt_xp_values ==
    [ iron_ore |-> 7, deepslate_iron_ore |-> 7, gold_ore |-> 10,
      deepslate_gold_ore |-> 10, nether_gold_ore |-> 10, copper_ore |-> 7,
      deepslate_copper_ore |-> 7, ancient_debris |-> 20 ]

\* sapling_drops of get_leaf_sapling_drop: the item (every chance lies
\* strictly between 0 and 1)
sapling_drops ==
    [ oak_leaves |-> "minecraft:oak_sapling", spruce_leaves |-> "minecraft:spruce_sapling",
      birch_leaves |-> "minecraft:birch_sapling",
      jungle_leaves |-> "minecraft:jungle_sapling",
      acacia_leaves |-> "minecraft:acacia_sapling",
      dark_oak_leaves |-> "minecraft:dark_oak_sapling",
      mangrove_leaves |-> "minecraft:mangrove_propagule",
      cherry_leaves |-> "minecraft:cherry_sapling" ]

\* Ids that none of the tables holds: a leaf, a log, an ore and others.
OtherIds == {"azalea_leaves", "pale_oak_log", "tin_ore", "stone", "air"}

\* The ids without namespace that the model draws blocks from.
ShortIds == DOMAIN ore_drops \cup OtherIds

\* The ids with the namespace, and what is left of each without it.
WithoutNamespace ==
    [block_id \in {"minecraft:" \o s : s \in ShortIds} |->
        CHOOSE s \in ShortIds : block_id = "minecraft:" \o s]

\* str(block_id).replace("minecraft:", "").lower(), for lower-case ids
normalize_block_id(block_id) ==
    IF block_id \in DOMAIN WithoutNamespace THEN WithoutNamespace[block_id] ELSE block_id

\* short_id.endswith("_leaves")
IsLeaves(short_id) == short_id \in DOMAIN sapling_drops \cup {"azalea_leaves"}

\* The level get_enchantment_level finds on the tool; 0 for no tool.
get_enchantment_level(tool, enchantment) ==
    IF tool = NoTool THEN 0
    ELSE IF enchantment = "silk_touch" THEN tool.silk_touch
    ELSE IF enchantment = "fortune" THEN tool.fortune
    ELSE 0

\* get_item_type_id(tool) if tool else "hand"
ToolKey(tool) == IF tool = NoTool THEN "hand" ELSE tool.type

get_tool_traits(tool) ==
    IF tool = NoTool THEN {}
    ELSE IF tool.type = "minecraft:iron_pickaxe" THEN {"pickaxe"}
    ELSE IF tool.type = "minecraft:iron_axe" THEN {"axe"}
    ELSE IF tool.type = "minecraft:shears" THEN {"shears"}
    ELSE {}

\* short_id.endswith("_log") or short_id.endswith("_stem")
IsLogOrStem(short_id) ==
    short_id \in {"oak_log", "birch_log", "spruce_log", "jungle_log", "acacia_log",
                  "dark_oak_log", "crimson_stem", "warped_stem", "mangrove_log",
                  "cherry_log", "pale_oak_log"}

\* short_id.endswith("_ore") or one of the listed blocks
IsOreLike(short_id) ==
    short_id \in (DOMAIN xp_values \ {"ancient_debris"}) \cup {"tin_ore"}
                  \cup {"ancient_debris", "amethyst_cluster", "large_amethyst_bud",
                        "medium_amethyst_bud", "small_amethyst_bud"}

\* The accepted tool categories of a block; {} stands for None (any tool).
required_tool_traits_for_block(block_id) ==
    LET short_id == normalize_block_id(block_id)
    IN  IF IsLogOrStem(short_id) THEN {"axe"}
        ELSE IF IsLeaves(short_id) THEN {"shears", "hoe", "axe"}
        ELSE IF IsOreLike(short_id) THEN {"pickaxe"}
        ELSE {}

\* len(self.tool_validation_cache)
CacheLen(cache) == Cardinality(DOMAIN cache.known) + cache.others

\* A faulty variant of CacheKey: the tool is left out of the key.
CacheKeyBlockOnly(block_id, tool_key) == block_id

\* cache_key = f"{block_id}:{tool_key}"
CacheKey(block_id, tool_key) == block_id \o ":" \o tool_key

\* The answer is_proper_tool computes on a cache miss.
ComputeProperTool(block_id, tool) ==
    LET required_traits == required_tool_traits_for_block(block_id)
    IN  IF required_traits = {} THEN TRUE
        ELSE (required_traits \cap get_tool_traits(tool)) # {}

\* is_proper_tool: the answer and the plugin state with the cache it leaves.
is_proper_tool(self, block_id, tool) ==
    LET cache_key == CacheKey(block_id, ToolKey(tool))
        cache == self.tool_validation_cache
        is_valid == ComputeProperTool(block_id, tool)
    IN  IF cache_key \in DOMAIN cache.known
        THEN [result |-> cache.known[cache_key], hit |-> TRUE, self |-> self]
        ELSE [result |-> is_valid, hit |-> FALSE,
              self |-> [self EXCEPT !.tool_validation_cache.known =
                                        Put(@, cache_key, is_valid)]]

\* A faulty variant of get_ore_drop: every block drops itself.
get_ore_drop_unmapped(block_id) == block_id

\* ore_drops.get(block_id, f"minecraft:{block_id}")
get_ore_drop(block_type) ==
    LET block_id == normalize_block_id(block_type)
    IN  IF block_id \in DOMAIN ore_drops THEN ore_drops[block_id]
        ELSE "minecraft:" \o block_id

\* xp_values.get(block_id, 0)
calculate_ore_xp(block_type) ==
    LET block_id == normalize_block_id(block_type)
    IN  IF block_id \in DOMAIN xp_values THEN xp_values[block_id] ELSE 0

\* A faulty variant of should_auto_smelt: silk touch is not looked at.
should_auto_smelt_with_silk(c, block_id, silk_touch_level, fortune_level) ==
    LET short_id == normalize_block_id(block_id)
    IN  IF ~c.auto_smelt_enabled THEN FALSE
        ELSE IF c.auto_smelt_require_fortune /\ fortune_level <= 0 THEN FALSE
        ELSE IF short_id \notin DOMAIN auto_smelt_outputs THEN FALSE
        ELSE IF c.auto_smelt_whitelist # {} /\ short_id \notin c.auto_smelt_whitelist
        THEN FALSE
        ELSE TRUE

should_auto_smelt(c, block_id, silk_touch_level, fortune_level) ==
    LET short_id == normalize_block_id(block_id)
    IN  IF ~c.auto_smelt_enabled THEN FALSE
        ELSE IF silk_touch_level > 0 THEN FALSE
        ELSE IF c.auto_smelt_require_fortune /\ fortune_level <= 0 THEN FALSE
        ELSE IF short_id \notin DOMAIN auto_smelt_outputs THEN FALSE
        ELSE IF c.auto_smelt_whitelist # {} /\ short_id \notin c.auto_smelt_whitelist
        THEN FALSE
        ELSE TRUE

\* The values random.randint can give base_count; {1} where it is not drawn.
BaseCounts(short_id) ==
    IF short_id \in {"lapis_ore", "deepslate_lapis_ore"} THEN 4..9
    ELSE IF short_id \in {"redstone_ore", "deepslate_redstone_ore", "lit_redstone_ore",
                          "lit_deepslate_redstone_ore"} THEN 4..5
    ELSE IF short_id = "nether_gold_ore" THEN 2..6
    ELSE {1}

\* A faulty variant of fortune_applicable: fortune applies to every block.
fortune_applicable_all(short_id) == TRUE

fortune_applicable(short_id) ==
    short_id \in {"coal_ore", "deepslate_coal_ore", "iron_ore", "deepslate_iron_ore",
                  "copper_ore", "deepslate_copper_ore", "gold_ore", "deepslate_gold_ore",
                  "redstone_ore", "deepslate_redstone_ore", "lit_redstone_ore",
                  "lit_deepslate_redstone_ore", "lapis_ore", "deepslate_lapis_ore",
                  "diamond_ore", "deepslate_diamond_ore", "emerald_ore",
                  "deepslate_emerald_ore", "quartz_ore", "nether_quartz_ore",
                  "nether_gold_ore"}

\* The values random.randint(-1, fortune_level) can give; {0} where it is
\* not drawn.
BonusRolls(short_id, fortune_level) ==
    IF fortune_level <= 0 \/ ~fortune_applicable(short_id) THEN {0}
    ELSE -1..fortune_level

\* if bonus_roll < 0: bonus_roll = 0
ClampRoll(bonus_roll) == IF bonus_roll < 0 THEN 0 ELSE bonus_roll

\* get_fortune_drop_amount, for the draws base_count and bonus_roll
get_fortune_drop_amount(block_id, fortune_level, base_count, bonus_roll) ==
    LET short_id == normalize_block_id(block_id)
    IN  IF fortune_level <= 0 \/ ~fortune_applicable(short_id)
        THEN Max(1, base_count)
        ELSE Max(1, base_count * (ClampRoll(bonus_roll) + 1))

\* The draws of one call of calculate_block_rewards: base_count and
\* bonus_roll of get_fortune_drop_amount, and for a leaf whether the sapling
\* and the stick draws succeed and how many sticks drop.
NoRolls == [base_count |-> 1, bonus_roll |-> 0, sapling |-> FALSE, stick |-> FALSE,
            sticks |-> 1]

\* calculate_leaf_rewards
calculate_leaf_rewards(block_id, tool, rolls) ==
    LET short_id == normalize_block_id(block_id)
        silk_touch_level == get_enchantment_level(tool, "silk_touch")
        sapling == IF short_id \in DOMAIN sapling_drops /\ rolls.sapling
                   THEN Put(EmptyDict, sapling_drops[short_id], 1)
                   ELSE EmptyDict
    IN  IF silk_touch_level > 0 \/ "shears" \in get_tool_traits(tool)
        THEN Put(EmptyDict, "minecraft:" \o short_id, 1)
        ELSE IF rolls.stick
        THEN Put(sapling, "minecraft:stick", rolls.sticks)
        ELSE sapling

\* A faulty variant of SilkBlock: a lit ore is kept lit.
SilkBlockLit(short_id) == short_id

\* silk_touch_overrides.get(short_id, short_id)
SilkBlock(short_id) ==
    IF short_id = "lit_redstone_ore" THEN "redstone_ore"
    ELSE IF short_id = "lit_deepslate_redstone_ore" THEN "deepslate_redstone_ore"
    ELSE short_id

\* calculate_block_rewards: the drops, the ore XP, and the XP auto-smelt
\* adds in thousandths (tenths of smelt XP times hundredths of multiplier).
calculate_block_rewards(c, block_type, tool, rolls) ==
    LET short_id == normalize_block_id(block_type)
        silk_touch_level == get_enchantment_level(tool, "silk_touch")
        fortune_level == get_enchantment_level(tool, "fortune")
        auto_smelt_applied == should_auto_smelt(c, short_id, silk_touch_level,
                                                fortune_level)
        drop_item == IF auto_smelt_applied THEN auto_smelt_outputs[short_id]
                     ELSE get_ore_drop(short_id)
        drop_count == get_fortune_drop_amount(short_id, fortune_level,
                                              rolls.base_count, rolls.bonus_roll)
    IN  IF IsLeaves(short_id)
        THEN [drops |-> calculate_leaf_rewards(short_id, tool, rolls), xp |-> 0,
              smelt_xp |-> 0]
        ELSE IF silk_touch_level > 0
        THEN [drops |-> Put(EmptyDict, "minecraft:" \o SilkBlock(short_id), 1),
              xp |-> 0, smelt_xp |-> 0]
        ELSE [drops |-> Put(EmptyDict, drop_item, drop_count),
              xp |-> calculate_ore_xp(short_id),
              smelt_xp |-> IF auto_smelt_applied /\ c.auto_smelt_give_xp
                           THEN smelt_xp_values[short_id]
                                    * c.auto_smelt_xp_multiplier_pct * drop_count
                           ELSE 0]

\* Adds the counts of one dict of drops to another.
AddDrops(acc, drops) ==
    [k \in DOMAIN acc \cup DOMAIN drops |-> Get(acc, k, 0) + Get(drops, k, 0)]


----------------------------------------------------------------------------
(* on_block_break                                                          *)
(*                                                                         *)
(* An event e carries the host's answers for this call: player, block      *)
(* (position), is_cancelled, has_permission ("veinminer.use"), is_sneaking,*)
(* level, block_permission, tool (main hand) and raises, which names the   *)
(* host call that raises during it: "none", "tool" (reading the main hand) *)
(* or "message" (player.send_message).                                     *)

\* A faulty variant of Outcome: the event is cancelled on every path.
OutcomeCancelled(self, exit, checks, msgs) ==
    [ self |-> self, exit |-> exit, checks |-> checks, msgs |-> msgs,
      is_cancelled |-> TRUE, propagated |-> FALSE, searched |-> FALSE, vein |-> {} ]

\* What a call did up to its return, or up to its call of process_vein_mining
\* (exit "process").
Outcome(self, exit, checks, msgs) ==
    [ self |-> self, exit |-> exit, checks |-> checks, msgs |-> msgs,
      is_cancelled |-> FALSE, propagated |-> FALSE, searched |-> FALSE, vein |-> {} ]

activation_ok(c, e) ==
    IF c.activation_mode = "always" THEN TRUE
    ELSE IF c.activation_mode = "sneak" THEN e.is_sneaking
    ELSE IF c.activation_mode = "stand" THEN ~e.is_sneaking
    ELSE FALSE

\* except Exception: the error notice, at most one per ERROR_NOTICE_MS.
ExceptClause(self, player_id, t, send_raises, checks, searched) ==
    LET last_error == Get(self.last_error_message, player_id, 0)
        out == [Outcome(self, "exception", checks, <<>>) EXCEPT !.searched = searched]
    IN  IF t - last_error > ERROR_NOTICE_MS
        THEN IF send_raises
             THEN [out EXCEPT !.propagated = TRUE]
             ELSE [out EXCEPT
                     !.self = [self EXCEPT !.last_error_message = Put(@, player_id, t)],
                     !.msgs = <<"error">>]
        ELSE out

\* A faulty variant of AfterSearch: a vein of exactly max_blocks members is
\* not processed.
AfterSearchBelowCap(self, c, t, e, checks, vein) ==
    LET actual_size == Cardinality(vein)
        checks1 == checks \o <<"daily_limit">>
        notice == actual_size >= c.max_blocks /\ c.max_blocks > 0
        found(out) == [out EXCEPT !.searched = TRUE, !.vein = vein]
    IN  IF vein = {}
        THEN found(Outcome(self, "invalid_vein", checks, <<>>))
        ELSE IF ~(actual_size >= c.min_vein_size)
        THEN found(Outcome(self, "too_small", checks, <<>>))
        ELSE IF actual_size > c.max_blocks * 2
        THEN found(Outcome(self, "abnormal_size", checks, <<>>))
        ELSE IF ~check_daily_limits(self, c, e.player, Min(actual_size, c.max_blocks))
        THEN IF e.raises = "message"
             THEN found(ExceptClause(self, e.player, t, TRUE, checks1, TRUE))
             ELSE found(Outcome(self, "daily_limit", checks1, <<"limit-reached">>))
        ELSE IF notice /\ e.raises = "message"
        THEN found(ExceptClause(self, e.player, t, TRUE, checks1, TRUE))
        ELSE IF actual_size < c.max_blocks
        THEN found([Outcome(self, "process", checks1,
                            IF notice THEN <<"vein-too-large">> ELSE <<>>)
                       EXCEPT !.is_cancelled = TRUE])
        ELSE found(Outcome([self EXCEPT !.last_vein_mine = Put(@, e.player, t)],
                           "not_processed", checks1,
                           IF notice THEN <<"vein-too-large">> ELSE <<>>))

\* The try body once find_vein has returned vein, up to the call of
\* process_vein_mining.
AfterSearch(self, c, t, e, checks, vein) ==
    LET actual_size == Cardinality(vein)
        checks1 == checks \o <<"daily_limit">>
        notice == actual_size >= c.max_blocks /\ c.max_blocks > 0
        found(out) == [out EXCEPT !.searched = TRUE, !.vein = vein]
    IN  IF vein = {}
        THEN found(Outcome(self, "invalid_vein", checks, <<>>))
        ELSE IF ~(actual_size >= c.min_vein_size)
        THEN found(Outcome(self, "too_small", checks, <<>>))
        ELSE IF actual_size > c.max_blocks * 2
        THEN found(Outcome(self, "abnormal_size", checks, <<>>))
        ELSE IF ~check_daily_limits(self, c, e.player, Min(actual_size, c.max_blocks))
        THEN IF e.raises = "message"
             THEN found(ExceptClause(self, e.player, t, TRUE, checks1, TRUE))
             ELSE found(Outcome(self, "daily_limit", checks1, <<"limit-reached">>))
        ELSE IF notice /\ e.raises = "message"
        THEN found(ExceptClause(self, e.player, t, TRUE, checks1, TRUE))
        ELSE IF actual_size <= c.max_blocks
        THEN found([Outcome(self, "process", checks1,
                            IF notice THEN <<"vein-too-large">> ELSE <<>>)
                       EXCEPT !.is_cancelled = TRUE])
        ELSE found(Outcome([self EXCEPT !.last_vein_mine = Put(@, e.player, t)],
                           "not_processed", checks1,
                           IF notice THEN <<"vein-too-large">> ELSE <<>>))

\* The body of the try statement, up to the call of process_vein_mining.
TryBody(self, c, w, t, e, checks) ==
    LET proper == is_proper_tool(self, BlockAt(w, e.block), e.tool)
    IN  IF e.raises = "tool"
        THEN ExceptClause(self, e.player, t, FALSE, checks, FALSE)
        ELSE IF ~c.require_correct_tool
        THEN AfterSearch(self, c, t, e, checks \o <<"tool", "vein">>,
                         find_vein(w, c, e.block))
        ELSE IF ~proper.result
        THEN IF e.raises = "message"
             THEN ExceptClause(proper.self, e.player, t, TRUE, checks \o <<"tool">>, FALSE)
             ELSE Outcome(proper.self, "wrong_tool", checks \o <<"tool">>, <<"wrong-tool">>)
        ELSE AfterSearch(proper.self, c, t, e, checks \o <<"tool", "vein">>,
                         find_vein(w, c, e.block))

\* finally: self.processing_vein.discard(player_id)
Release(self, player_id) ==
    [self EXCEPT !.processing_vein = @ \ {player_id}]

\* The flag is released unless process_vein_mining is about to run.
ReleaseUnlessProcessing(out, player_id) ==
    IF out.exit = "process" THEN out
    ELSE [out EXCEPT !.self = Release(out.self, player_id)]

\* A faulty variant of Guarded: the flag is discarded at the end of the try body
\* only, so a raised exception skips it.
GuardedNoFinally(self, c, w, t, e, checks) ==
    LET out == TryBody([self EXCEPT !.processing_vein = @ \cup {e.player}],
                       c, w, t, e, checks)
    IN  IF out.exit = "exception" THEN out ELSE ReleaseUnlessProcessing(out, e.player)

\* self.processing_vein.add(player_id), then try / except / finally.  The
\* flag stays set while process_vein_mining runs (exit "process").
Guarded(self, c, w, t, e, checks) ==
    ReleaseUnlessProcessing(
        TryBody([self EXCEPT !.processing_vein = @ \cup {e.player}], c, w, t, e, checks),
        e.player)

\* A faulty variant of CooldownActive: the cooldown test is never true.
CooldownNever(self, c, player_id, current_time) == FALSE

\* current_time - last_mine < self.cooldown_ms
CooldownActive(self, c, player_id, current_time) ==
    current_time - Get(self.last_vein_mine, player_id, 0) < c.cooldown_ms

\* A faulty variant of CooldownReject: the notice is sent at every rejection.
CooldownRejectUnthrottled(self, e, t, checks) ==
    IF e.raises = "message"
    THEN [Outcome(self, "cooldown", checks, <<>>) EXCEPT !.propagated = TRUE]
    ELSE Outcome([self EXCEPT !.last_cooldown_message = Put(@, e.player, t)],
                 "cooldown", checks, <<"cooldown-active">>)

\* The cooldown rejection: the notice is sent at most once per
\* COOLDOWN_NOTICE_MS.
CooldownReject(self, e, t, checks) ==
    IF t - Get(self.last_cooldown_message, e.player, 0) > COOLDOWN_NOTICE_MS
    THEN IF e.raises = "message"
         THEN [Outcome(self, "cooldown", checks, <<>>) EXCEPT !.propagated = TRUE]
         ELSE Outcome([self EXCEPT !.last_cooldown_message = Put(@, e.player, t)],
                      "cooldown", checks, <<"cooldown-active">>)
    ELSE Outcome(self, "cooldown", checks, <<>>)

\* The rate-limit rejection: block the player, then send the notice.
RateLimitReject(self, c, e, t, checks) ==
    IF e.raises = "message"
    THEN [Outcome(block_player_temporarily(self, c, e.player, t),
                  "rate_limit", checks, <<>>) EXCEPT !.propagated = TRUE]
    ELSE Outcome(block_player_temporarily(self, c, e.player, t),
                 "rate_limit", checks, <<"limit-reached">>)

\* The checks after the cooldown: world, activation mode, block id and the
\* per-block permission; then the guarded part.
AfterCooldown(self, c, w, t, e, checks) ==
    LET k1 == checks \o <<"world">>
        k2 == k1 \o <<"activation">>
        k3 == k2 \o <<"vein_block">>
        k4 == IF c.per_block_permissions THEN k3 \o <<"block_permission">> ELSE k3
    IN  IF e.level \in c.disabled_worlds THEN Outcome(self, "world", k1, <<>>)
        ELSE IF ~activation_ok(c, e) THEN Outcome(self, "activation", k2, <<>>)
        ELSE IF BlockAt(w, e.block) \notin vein_blocks
        THEN Outcome(self, "vein_block", k3, <<>>)
        ELSE IF c.per_block_permissions /\ ~e.block_permission
        THEN IF e.raises = "message"
             THEN [Outcome(self, "block_permission", k4, <<>>) EXCEPT !.propagated = TRUE]
             ELSE Outcome(self, "block_permission", k4, <<"no-permission">>)
        ELSE Guarded(self, c, w, t, e, k4)

\* A faulty variant of AlreadyProcessing: the processing flag is never seen.
AlreadyProcessingNever(self, player_id) == FALSE

\* if player_id in self.processing_vein
AlreadyProcessing(self, player_id) == player_id \in self.processing_vein

\* A faulty variant of AfterRateLimit: the cooldown is tested before the
\* processing flag.
AfterRateLimitCooldownFirst(self, c, w, t, e, checks) ==
    IF CooldownActive(self, c, e.player, t)
    THEN CooldownReject(self, e, t, checks \o <<"cooldown">>)
    ELSE IF AlreadyProcessing(self, e.player)
    THEN Outcome(self, "processing", checks \o <<"cooldown", "processing">>, <<>>)
    ELSE AfterCooldown(self, c, w, t, e, checks \o <<"cooldown", "processing">>)

\* The checks after the rate limit: the processing flag, then the cooldown.
AfterRateLimit(self, c, w, t, e, checks) ==
    IF AlreadyProcessing(self, e.player)
    THEN Outcome(self, "processing", checks \o <<"processing">>, <<>>)
    ELSE IF CooldownActive(self, c, e.player, t)
    THEN CooldownReject(self, e, t, checks \o <<"processing", "cooldown">>)
    ELSE AfterCooldown(self, c, w, t, e, checks \o <<"processing", "cooldown">>)

\* The rate-limit check, which prunes the player's window, and what follows.
AfterToggle(self, c, w, t, e, checks) ==
    LET rate == check_rate_limits(self, c, e.player, t)
    IN  IF ~rate.result
        THEN RateLimitReject(rate.self, c, e, t, checks \o <<"rate_limit">>)
        ELSE AfterRateLimit(rate.self, c, w, t, e, checks \o <<"rate_limit">>)

\* A faulty variant of AfterBlockCheck: disabled_players is not looked at.
AfterBlockCheckNoToggle(self, c, w, t, disabled, e) ==
    IF ~e.has_permission
    THEN Outcome(self, "permission", <<"temporary_block", "permission">>, <<>>)
    ELSE AfterToggle(self, c, w, t, e, <<"temporary_block", "permission", "toggle">>)

\* The permission and the toggle, on the state is_player_blocked left.
AfterBlockCheck(self, c, w, t, disabled, e) ==
    IF ~e.has_permission
    THEN Outcome(self, "permission", <<"temporary_block", "permission">>, <<>>)
    ELSE IF e.player \in disabled
    THEN Outcome(self, "toggle", <<"temporary_block", "permission", "toggle">>, <<>>)
    ELSE AfterToggle(self, c, w, t, e, <<"temporary_block", "permission", "toggle">>)

\* A faulty variant of TemporaryBlockReject: the player is told of the limit.
TemporaryBlockRejectNotice(self) ==
    Outcome(self, "temporary_block", <<"temporary_block">>, <<"limit-reached">>)

\* if self.is_player_blocked(player_id): return
TemporaryBlockReject(self) ==
    Outcome(self, "temporary_block", <<"temporary_block">>, <<>>)

\* on_block_break up to its return or its call of process_vein_mining.
\* checks lists the checks in the order in which the call evaluated them.
on_block_break(self, c, w, t, disabled, e) ==
    LET blocked == is_player_blocked(self, e.player, t)
    IN  IF e.is_cancelled THEN Outcome(self, "event_cancelled", <<>>, <<>>)
        ELSE IF blocked.result
        THEN TemporaryBlockReject(blocked.self)
        ELSE AfterBlockCheck(blocked.self, c, w, t, disabled, e)

----------------------------------------------------------------------------
(* process_vein_mining and process_block_break_internal                    *)

\* A faulty variant of Batch: the slice runs one element too far.
BatchInclusive(vein_list, i, batch_size) ==
    SubSeq(vein_list, i + 1, Min(i + batch_size + 1, Len(vein_list)))

\* batch = vein_list[i:i + self.batch_size], for a 0-based i
Batch(vein_list, i, batch_size) ==
    SubSeq(vein_list, i + 1, Min(i + batch_size, Len(vein_list)))

\* The ways the host can answer the calls of process_block_break_internal:
\*   "ok"            set_type clears the block
\*   "type_raises"   reading vein_block.type raises
\*   "fallback"      set_type raises, the setblock command clears the block
\*   "fallback_noop" set_type raises, the setblock command changes nothing
\*   "clear_raises"  set_type and the setblock command both raise
\*   "drop_raises"   the block is cleared, the give command of drop_item_stack raises
BlockOutcomes(c) ==
    {"ok", "type_raises", "fallback", "fallback_noop", "clear_raises"}
        \cup (IF c.auto_pickup_enabled THEN {} ELSE {"drop_raises"})

\* process_block_break_internal: the result dict, the world and items_to_give
\* after the call, and what drop_item_stack handed out.
process_block_break_internal(w, c, vein_block, tool, items_to_give, outcome) ==
    LET rewards == calculate_block_rewards(c, BlockAt(w, vein_block), tool, NoRolls)
        cleared == [w EXCEPT ![vein_block] = AIR]
        w1 == IF outcome = "fallback_noop" THEN w ELSE cleared
    IN  IF outcome = "type_raises"
        THEN [ success |-> FALSE, xp |-> 0, world |-> w,
               items_to_give |-> items_to_give, dropped |-> EmptyDict ]
        ELSE IF outcome = "clear_raises"
        THEN [ success |-> FALSE, xp |-> rewards.xp, world |-> w,
               items_to_give |-> items_to_give, dropped |-> EmptyDict ]
        ELSE IF outcome = "drop_raises"
        THEN [ success |-> FALSE, xp |-> rewards.xp, world |-> cleared,
               items_to_give |-> items_to_give, dropped |-> EmptyDict ]
        ELSE IF c.auto_pickup_enabled
        THEN [ success |-> TRUE, xp |-> rewards.xp, world |-> w1,
               items_to_give |-> AddDrops(items_to_give, rewards.drops),
               dropped |-> EmptyDict ]
        ELSE [ success |-> TRUE, xp |-> rewards.xp, world |-> w1,
               items_to_give |-> items_to_give, dropped |-> rewards.drops ]

\* Python's round() of the quotient n / d of two naturals (ties to even).
RoundDiv(n, d) ==
    LET q == n \div d
        r == n % d
    IN  IF 2 * r > d THEN q + 1
        ELSE IF 2 * r = d THEN q + (q % 2)
        ELSE q

\* grant_vein_experience: the XP given.  The bonus multiplier is held in
\* hundredths (xp_bonus_multiplier_pct = 5 for 0.05).
grant_vein_experience(c, base_xp, successful_breaks) ==
    IF ~c.xp_enabled \/ successful_breaks <= 0 THEN 0
    ELSE IF base_xp <= 0 THEN 0
    ELSE IF c.xp_bonus_enabled /\ c.xp_bonus_per_blocks > 0
    THEN Max(0, RoundDiv(base_xp * (100 * c.xp_bonus_per_blocks
                                      + successful_breaks * c.xp_bonus_multiplier_pct),
                         100 * c.xp_bonus_per_blocks))
    ELSE Max(0, base_xp)

----------------------------------------------------------------------------
(* apply_tool_durability                                                   *)
(*                                                                         *)
(* An item stack as the durability code reads it: its type, the damage in  *)
(* its meta, the maximum durability of its type, its unbreaking level and  *)
(* the unbreakable flag of its meta.                                       *)

Item(type, damage, max_durability, unbreaking, is_unbreakable) ==
    [ type |-> type, damage |-> damage, max_durability |-> max_durability,
      unbreaking |-> unbreaking, is_unbreakable |-> is_unbreakable ]

\* No item (None), and ItemStack("minecraft:air", 1).
NoItem == Item("none", 0, 0, 0, FALSE)

AirStack == Item(AIR, 0, 0, 0, FALSE)

\* The ways the host can answer the inventory calls of apply_tool_durability:
\*   "ok"               no call raises
\*   "damage_raises"    reading meta.damage raises
\*   "set_meta_raises"  tool.set_item_meta raises
\*   "assign_raises"    assigning item_in_main_hand raises
\*   "inventory_raises" assigning item_in_main_hand and inventory.remove raise
HostAnswers == {"ok", "damage_raises", "set_meta_raises", "assign_raises", "inventory_raises"}

\* A call that returns before it touches the tool.
ToolKept(tool) ==
    [ hand |-> tool, raised |-> FALSE, exceeded |-> FALSE, applied |-> 0 ]

\* A faulty variant of ExceededDamage: the damage is stored as computed.
ExceededDamageUnclamped(new_damage, max_durability) == new_damage

\* new_damage = max_durability - 1
ExceededDamage(new_damage, max_durability) == max_durability - 1

\* The part of apply_tool_durability from the reading of the current damage:
\* applied is the number of damage points left after the unbreaking rolls.
StoreDamage(c, tool, applied, host) ==
    LET current_damage == IF host = "damage_raises" THEN 0 ELSE tool.damage
        new_damage == current_damage + applied
        exceeded == new_damage >= tool.max_durability
        stored == IF exceeded THEN ExceededDamage(new_damage, tool.max_durability)
                  ELSE new_damage
        out == [ hand |-> tool, raised |-> FALSE, exceeded |-> exceeded,
                 applied |-> applied ]
    IN  IF exceeded /\ c.break_on_exceed
        THEN IF host = "inventory_raises" THEN [out EXCEPT !.raised = TRUE]
             ELSE IF host = "assign_raises" THEN [out EXCEPT !.hand = NoItem]
             ELSE [out EXCEPT !.hand = AirStack]
        ELSE IF host \in {"set_meta_raises", "assign_raises", "inventory_raises"}
        THEN out
        ELSE [out EXCEPT !.hand = [tool EXCEPT !.damage = stored]]

\* apply_tool_durability: the item in the main hand after the call and
\* whether the call raised.  The multiplier is held in hundredths; up is the
\* outcome of random.random() < (base_damage - damage_rolls), k the number of
\* rolls that the unbreaking draws let through.
apply_tool_durability(c, tool, successful_breaks, up, k, host) ==
    LET base_damage_pct == successful_breaks * c.durability_multiplier_pct
        whole == base_damage_pct \div 100
        damage_rolls == IF up /\ base_damage_pct % 100 # 0 THEN whole + 1 ELSE whole
        applied == IF c.respect_unbreaking /\ tool.unbreaking > 0
                   THEN Min(k, damage_rolls)
                   ELSE damage_rolls
    IN  IF tool = NoItem \/ successful_breaks <= 0 \/ c.durability_multiplier_pct <= 0
        THEN ToolKept(tool)
        ELSE IF tool.is_unbreakable THEN ToolKept(tool)
        ELSE IF tool.max_durability <= 0 THEN ToolKept(tool)
        ELSE IF damage_rolls <= 0 THEN ToolKept(tool)
        ELSE IF applied <= 0 THEN ToolKept(tool)
        ELSE StoreDamage(c, tool, applied, host)

----------------------------------------------------------------------------
(* The handler at rest                                                     *)

\* No process_vein_mining call in flight.
IdleOp == [pc |-> "idle"]

\* The observation before the first event.
NoEvent == [id |-> 0, exit |-> "none"]

HandlerIdle ==
    /\ now = StartTime
    /\ last_vein_mine = EmptyDict
    /\ processing_vein = {}
    /\ last_error_message = EmptyDict
    /\ last_cooldown_message = EmptyDict
    /\ daily_vein_count = EmptyDict
    /\ daily_block_count = EmptyDict
    /\ minute_vein_count = EmptyDict
    /\ blocked_players = EmptyDict
    /\ tool_validation_cache = EmptyCache
    /\ disabled_players = {}
    /\ op = IdleOp
    /\ ev = NoEvent
    /\ events = 0
    /\ deviations = 0
    /\ ticks = 0
    /\ cooldown_notices = EmptyDict
    /\ daily_reset_scheduled = config.enable_limits
    /\ stats_tracker = NewTracker(TRUE, TRUE, <<>>)
    /\ tracker_log = EmptyDict

SetSelf(self) ==
    /\ last_vein_mine' = self.last_vein_mine
    /\ processing_vein' = self.processing_vein
    /\ last_error_message' = self.last_error_message
    /\ last_cooldown_message' = self.last_cooldown_message
    /\ daily_vein_count' = self.daily_vein_count
    /\ daily_block_count' = self.daily_block_count
    /\ minute_vein_count' = self.minute_vein_count
    /\ blocked_players' = self.blocked_players
    /\ tool_validation_cache' = self.tool_validation_cache

----------------------------------------------------------------------------
(* The vein search on its own: SpecVein                                    *)
(* Init draws a world, a configuration and a start block; each step is one *)
(* pass of find_vein's loop, and FvReturn is its return statement.         *)

SmallGrid ==
    {<<x, y, 0>> : x \in 0..GridW, y \in (MAX_WORLD_HEIGHT - 1)..(MAX_WORLD_HEIGHT + 1)}

SmallWorlds == [SmallGrid -> {IRON_ORE, STONE}]

VeinConfigs ==
    { DefaultConfig,
      [DefaultConfig EXCEPT !.include_diagonals = FALSE, !.max_blocks = 3],
      [DefaultConfig EXCEPT !.max_reach_distance = 1],
      [DefaultConfig EXCEPT !.max_reach_distance = 1, !.max_blocks = 2],
      [DefaultConfig EXCEPT !.mining_pattern = "vertical", !.max_blocks = 2],
      [DefaultConfig EXCEPT !.mining_pattern = "cube", !.pattern_radius = 2,
                            !.max_reach_distance = 2],
      [DefaultConfig EXCEPT !.mining_pattern = "sphere", !.pattern_radius = 2],
      [DefaultConfig EXCEPT !.mining_pattern = "horizontal",
                            !.include_diagonals = FALSE, !.max_blocks = 1] }

\* A flat sheet of one block type, wider than the horizontal pattern below.
WideHalf == 7

WideGrid == {<<x, 64, z>> : x \in (-WideHalf)..WideHalf, z \in (-WideHalf)..WideHalf}

WideWorld == [p \in WideGrid |-> IRON_ORE]

WideConfig ==
    [DefaultConfig EXCEPT !.mining_pattern = "horizontal", !.horizontal_range = 7,
                          !.max_reach_distance = 1, !.max_blocks = 10]

\* The same configuration with a maximum below the size of the start block's
\* component.
WideConfigSmall == [WideConfig EXCEPT !.max_blocks = 4]

WideStart == <<0, 64, 0>>

InitVein ==
    /\ \/ /\ world \in SmallWorlds
          /\ config \in VeinConfigs
          /\ start \in {p \in SmallGrid : InHeight(p) /\ world[p] = IRON_ORE}
       \/ /\ world = WideWorld
          /\ config \in {WideConfig, WideConfigSmall}
          /\ start = WideStart
    /\ fv = FvInit(start)
    /\ neighbor_offsets = CacheOffsets(config, None)
    /\ HandlerIdle

FvIterate ==
    /\ FvRunning(config, fv)
    /\ fv' = FvPass(world, config, start, BlockAt(world, start), fv, neighbor_offsets)
    /\ UNCHANGED <<world, config, start, now, pluginVars, disabled_players, op, ev,
                   events, deviations, ticks, neighbor_offsets, cooldown_notices,
                   daily_reset_scheduled, statsVars>>

FvReturn ==
    /\ fv.pc # "returned"
    /\ ~FvRunning(config, fv)
    /\ fv' = [fv EXCEPT !.pc = "returned"]
    /\ UNCHANGED <<world, config, start, now, pluginVars, disabled_players, op, ev,
                   events, deviations, ticks, neighbor_offsets, cooldown_notices,
                   daily_reset_scheduled, statsVars>>

NextVein == FvIterate \/ FvReturn

SpecVein == InitVein /\ [][NextVein]_vars

\* find_vein is one synchronous call: a loop pass that can run does run, and
\* the call returns once the loop has ended.
SpecVeinFair == SpecVein /\ WF_vars(FvIterate) /\ WF_vars(FvReturn)

----------------------------------------------------------------------------
(* The neighbor offsets on their own: SpecOffsets                          *)
(* Init draws the pattern settings load_config can leave; the step is the  *)
(* filling of the cache at the start of the first search.                  *)

Patterns == {"adjacent", "cube", "sphere", "vertical", "horizontal"}

\* The pattern settings after the clamping of load_config: for each pattern
\* every value of the settings it reads, with the others at their defaults.
OffsetConfigs ==
    {[DefaultConfig EXCEPT !.include_diagonals = d] : d \in BOOLEAN}
    \cup {[DefaultConfig EXCEPT !.mining_pattern = p, !.pattern_radius = r,
                                !.include_diagonals = d] :
             p \in {"cube", "sphere"}, r \in 1..MAX_PATTERN_RADIUS, d \in BOOLEAN}
    \cup {[DefaultConfig EXCEPT !.mining_pattern = "vertical", !.vertical_range = v,
                                !.include_diagonals = d] :
             v \in 1..MAX_PATTERN_RANGE, d \in BOOLEAN}
    \cup {[DefaultConfig EXCEPT !.mining_pattern = "horizontal", !.horizontal_range = h,
                                !.include_diagonals = d] :
             h \in 1..MAX_PATTERN_RANGE, d \in BOOLEAN}

InitOffsets ==
    /\ world = [p \in SmallGrid |-> IRON_ORE]
    /\ config \in OffsetConfigs
    /\ start = <<0, MAX_WORLD_HEIGHT, 0>>
    /\ fv = FvInit(start)
    /\ neighbor_offsets = None
    /\ HandlerIdle

\* if self._neighbor_offsets is None: self._neighbor_offsets = self.build_neighbor_offsets()
BuildOffsets ==
    /\ neighbor_offsets = None
    /\ neighbor_offsets' = CacheOffsets(config, neighbor_offsets)
    /\ UNCHANGED <<world, config, start, fv, now, pluginVars, disabled_players, op, ev,
                   events, deviations, ticks, cooldown_notices, daily_reset_scheduled, statsVars>>

NextOffsets == BuildOffsets

SpecOffsets == InitOffsets /\ [][NextOffsets]_vars

----------------------------------------------------------------------------
(* The tool durability on its own: SpecDurability                          *)
(* Init draws the durability settings; the step is one call of             *)
(* apply_tool_durability on a tool, with the outcomes of its random draws  *)
(* and the host's answers.                                                 *)

\* The tools of the model have at most MaxToolDurability uses, the calls
\* report at most MaxBreaks broken blocks.
MaxToolDurability == 4
MaxBreaks == 3

DurabilityConfigs ==
    {[DefaultConfig EXCEPT !.durability_multiplier_pct = m, !.respect_unbreaking = u,
                           !.break_on_exceed = b] :
        m \in {0, 50, 100, 250}, u \in BOOLEAN, b \in BOOLEAN}

\* No tool, a tool without a finite durability, and the pickaxes with every
\* damage below their maximum.
DurabilityTools ==
    {NoItem, Item("minecraft:iron_pickaxe", 0, 0, 0, FALSE)}
    \cup {Item("minecraft:iron_pickaxe", d, MaxToolDurability, u, x) :
             d \in 0..(MaxToolDurability - 1), u \in {0, 3}, x \in BOOLEAN}

InitDurability ==
    /\ world = [p \in SmallGrid |-> IRON_ORE]
    /\ config \in DurabilityConfigs
    /\ start = <<0, MAX_WORLD_HEIGHT, 0>>
    /\ fv = FvInit(start)
    /\ neighbor_offsets = None
    /\ HandlerIdle

ApplyToolDurability(tool, successful_breaks, up, k, host) ==
    /\ ev = NoEvent
    /\ LET r == apply_tool_durability(config, tool, successful_breaks, up, k, host)
       IN  ev' = [ id |-> 0, exit |-> "durability", tool |-> tool,
                   successful_breaks |-> successful_breaks, host |-> host,
                   hand |-> r.hand, raised |-> r.raised, exceeded |-> r.exceeded,
                   applied |-> r.applied ]
    /\ UNCHANGED <<world, config, start, fv, now, pluginVars, disabled_players, op,
                   events, deviations, ticks, neighbor_offsets, cooldown_notices,
                   daily_reset_scheduled, statsVars>>

NextDurability ==
    \E tool \in DurabilityTools : \E successful_breaks \in 0..MaxBreaks :
        \E up \in BOOLEAN : \E k \in 0..(3 * MaxBreaks) : \E host \in HostAnswers :
            ApplyToolDurability(tool, successful_breaks, up, k, host)

SpecDurability == InitDurability /\ [][NextDurability]_vars

----------------------------------------------------------------------------
(* The break-event handler: Spec                                           *)
(* BreakEvent is one call of on_block_break up to its return or its call   *)
(* of process_vein_mining; ProcessBlock is one pass of the inner loop of   *)
(* process_vein_mining; FinishVein is the rest of the call, through the    *)
(* finally clause; Tick is the passing of time.                            *)

LineGrid == {<<x, 64, 0>> : x \in 0..LineW}

\* A line of ore, and the same line with stone in place of one block.
LineWorlds ==
    { [p \in LineGrid |-> IRON_ORE],
      [p \in LineGrid |-> IF p[1] = 1 THEN STONE ELSE IRON_ORE] }

RateConfig ==
    [DefaultConfig EXCEPT !.max_blocks = 2, !.min_vein_size = 1, !.cooldown_ms = 0,
                          !.max_veins_per_minute = 1, !.temporary_block_duration = 1]

DailyVeinsConfig ==
    [DefaultConfig EXCEPT !.enable_limits = TRUE, !.max_veins_per_day = 1,
                          !.max_veins_per_minute = 0, !.cooldown_ms = 0,
                          !.min_vein_size = 1, !.batch_size = 1,
                          !.auto_pickup_enabled = FALSE, !.max_blocks = 2]

DailyBlocksConfig ==
    [DefaultConfig EXCEPT !.enable_limits = TRUE, !.max_blocks_per_day = 2,
                          !.cooldown_ms = 0, !.min_vein_size = 1, !.batch_size = 100,
                          !.include_diagonals = FALSE]

CooldownConfig ==
    [DefaultConfig EXCEPT !.batch_size = 2, !.per_block_permissions = TRUE,
                          !.disabled_worlds = {"nether"}]

GateConfigs == {RateConfig, DailyVeinsConfig, DailyBlocksConfig, CooldownConfig}

\* A break event of a sneaking, permitted player holding a pickaxe.
NormalEvent(player_id, block) ==
    [ player |-> player_id, block |-> block, is_cancelled |-> FALSE,
      has_permission |-> TRUE, is_sneaking |-> TRUE, level |-> "overworld",
      block_permission |-> TRUE, tool |-> IronPickaxe, raises |-> "none" ]

Unusual(e) == e # NormalEvent(e.player, e.block)

\* The events of the model: the normal events of the first player at every
\* block, those of the other players at the first block, and the single
\* deviations of the first player's event at the first block.
Events ==
    LET first == <<0, 64, 0>>
        e == NormalEvent("p1", first)
    IN  {NormalEvent("p1", b) : b \in LineGrid}
        \cup {NormalEvent(p, first) : p \in Players}
        \cup { [e EXCEPT !.is_cancelled = TRUE],
               [e EXCEPT !.has_permission = FALSE],
               [e EXCEPT !.is_sneaking = FALSE],
               [e EXCEPT !.level = "nether"],
               [e EXCEPT !.block_permission = FALSE],
               [e EXCEPT !.tool = NoTool],
               [e EXCEPT !.raises = "tool"],
               [e EXCEPT !.raises = "message"] }

\* The orders in which list(vein) can enumerate a set.
Orders(S) ==
    {f \in [1..Cardinality(S) -> S] :
        \A i, j \in 1..Cardinality(S) : i # j => f[i] # f[j]}

Init ==
    /\ world \in LineWorlds
    /\ config \in GateConfigs
    /\ start = WideStart
    /\ fv = FvInit(start)
    /\ neighbor_offsets = None
    /\ HandlerIdle

\* What a returned call leaves for observation.
Returned(id, e, t, before, w, w_after, out, o) ==
    [ id |-> id, player |-> e.player, block |-> e.block, time |-> t,
      exit |-> out.exit, checks |-> out.checks, msgs |-> out.msgs,
      acquired |-> "tool" \in Range(out.checks) \/ out.exit = "exception",
      is_cancelled |-> out.is_cancelled, propagated |-> out.propagated,
      searched |-> out.searched, vein |-> out.vein,
      before |-> before, after |-> out.self, world_before |-> w,
      world_after |-> w_after,
      attempts |-> o.attempts, results |-> o.results, successful_breaks |-> o.successful_breaks,
      total_xp |-> o.total_xp, xp_gained |-> o.xp_gained,
      items |-> o.items, summary |-> o.summary,
      usage |-> o.usage, stats |-> o.stats, returned_at |-> o.returned_at ]

\* The locals of process_vein_mining before its loop.
NewOp(id, e, t, before, w, out, vein_list) ==
    [ pc |-> "processing", id |-> id, e |-> e, time |-> t, before |-> before,
      world_before |-> w, out |-> out, vein_list |-> vein_list,
      i |-> 0, j |-> 0, successful_breaks |-> 0, total_xp |-> 0,
      items_to_give |-> EmptyDict, dropped |-> EmptyDict,
      attempts |-> EmptyDict, results |-> EmptyDict ]

NoProcessing(t) ==
    [ attempts |-> EmptyDict, results |-> EmptyDict, successful_breaks |-> 0,
      total_xp |-> 0, xp_gained |-> 0, items |-> EmptyDict, summary |-> FALSE,
      usage |-> <<>>, stats |-> <<>>, returned_at |-> t ]

\* The number of items one block added to items_to_give and to the drops.
GainedDrops(items_before, items_after, dropped) ==
    LET gained == AddDrops(dropped,
                           [k \in DOMAIN items_after |->
                               items_after[k] - Get(items_before, k, 0)])
    IN  [k \in {x \in DOMAIN gained : gained[x] # 0} |-> gained[k]]

\* What is kept of the notices sent to a player: the time of the latest
\* one, its distance to the one before (-1 for the first) and whether the
\* configuration was reloaded between the two, or since the latest.
NoticeSent(notices, player_id, t) ==
    IF player_id \in DOMAIN notices
    THEN [time |-> t, gap |-> t - notices[player_id].time,
          reloaded |-> notices[player_id].pending, pending |-> FALSE]
    ELSE [time |-> t, gap |-> -1, reloaded |-> FALSE, pending |-> FALSE]

\* The effect of a call of on_block_break that did out: it returns, or
\* process_vein_mining starts on one enumeration of the vein.
Deliver(e, out) ==
    /\ SetSelf(out.self)
    /\ cooldown_notices' = IF "cooldown-active" \in Range(out.msgs)
                           THEN Put(cooldown_notices, e.player,
                                    NoticeSent(cooldown_notices, e.player, now))
                           ELSE cooldown_notices
    /\ neighbor_offsets' = IF out.searched THEN CacheOffsets(config, neighbor_offsets)
                           ELSE neighbor_offsets
    /\ IF out.exit = "process"
       THEN /\ \E vein_list \in Orders(out.vein) :
                  op' = NewOp(events + 1, e, now, Self, world, out, vein_list)
            /\ ev' = ev
       ELSE /\ op' = op
            /\ ev' = Returned(events + 1, e, now, Self, world, world, out,
                           NoProcessing(now))

\* A break event is delivered.  While process_vein_mining runs, the host
\* delivers only events of the player whose blocks are being broken.
BreakEventWithin(e, max_events) ==
    /\ events < max_events
    /\ IF op.pc = "idle" THEN TRUE ELSE e.player = op.e.player
    /\ Unusual(e) => deviations < MaxDeviations
    /\ Deliver(e, on_block_break(Self, config, world, now, disabled_players, e))
    /\ events' = events + 1
    /\ deviations' = IF Unusual(e) THEN deviations + 1 ELSE deviations
    /\ UNCHANGED <<world, config, start, fv, now, disabled_players, ticks, daily_reset_scheduled, statsVars>>

BreakEvent(e) == BreakEventWithin(e, MaxEvents)

\* for i in range(0, len(vein_list), self.batch_size): for vein_block in batch
ProcessBlock(outcome) ==
    /\ op.pc = "processing"
    /\ op.i < Len(op.vein_list)
    /\ outcome # "ok" => deviations < MaxDeviations
    /\ LET batch == Batch(op.vein_list, op.i, config.batch_size)
           vein_block == batch[op.j + 1]
           result == process_block_break_internal(world, config, vein_block, op.e.tool,
                                                  op.items_to_give, outcome)
           last == op.j + 1 >= Len(batch)
           new_xp == IF result.success THEN op.total_xp + result.xp ELSE op.total_xp
       IN  /\ world' = result.world
           /\ op' = [op EXCEPT
                       !.i = IF last THEN op.i + config.batch_size ELSE op.i,
                       !.j = IF last THEN 0 ELSE op.j + 1,
                       !.successful_breaks = IF result.success THEN @ + 1 ELSE @,
                       !.total_xp = new_xp,
                       !.items_to_give = result.items_to_give,
                       !.dropped = AddDrops(@, result.dropped),
                       !.attempts = Put(@, vein_block, Get(@, vein_block, 0) + 1),
                       !.results = Put(@, vein_block,
                                       [ outcome |-> outcome,
                                         success |-> result.success,
                                         xp |-> new_xp - op.total_xp,
                                         drops |-> GainedDrops(op.items_to_give,
                                                               result.items_to_give,
                                                               result.dropped) ])]
    /\ deviations' = IF outcome # "ok" THEN deviations + 1 ELSE deviations
    /\ UNCHANGED <<config, start, fv, now, pluginVars, disabled_players, ev, events, ticks,
                   neighbor_offsets, cooldown_notices, daily_reset_scheduled, statsVars>>

\* The host calls that can raise after the loop: "durability" is
\* player.inventory.remove in apply_tool_durability, "stats" is
\* stats_tracker.record_vein_mine, "tip" is player.send_tip.
FinishRaises == {"none", "durability", "stats", "tip"}

\* A faulty variant of AfterProcessing: the usage and the statistics are
\* recorded whatever the number of successful breaks.
AfterProcessingAlways(self, c, player_id, successful_breaks, t) ==
    [ self |-> record_vein_usage(self, c, player_id, successful_breaks, t),
      usage |-> <<successful_breaks>>,
      stats |-> <<successful_breaks>> ]

\* What on_block_break does with the summary process_vein_mining returned:
\* the state after record_vein_usage, and the arguments of the calls of
\* record_vein_usage and of stats_tracker.record_vein_mine.
AfterProcessing(self, c, player_id, successful_breaks, t) ==
    IF successful_breaks > 0
    THEN [ self |-> record_vein_usage(self, c, player_id, successful_breaks, t),
           usage |-> <<successful_breaks>>,
           stats |-> <<successful_breaks>> ]
    ELSE [ self |-> self, usage |-> <<>>, stats |-> <<>> ]

\* process_vein_mining raised before it returned a summary.
NothingRecorded(self) == [ self |-> self, usage |-> <<>>, stats |-> <<>> ]

\* The rest of process_vein_mining and of the try statement of
\* on_block_break, with the except and finally clauses.  notice_raises: the
\* player.send_message of the except clause raises as well.
FinishVein(raises, notice_raises) ==
    /\ op.pc = "processing"
    /\ op.i >= Len(op.vein_list)
    /\ raises # "none" => (deviations < MaxDeviations /\ op.successful_breaks > 0)
    /\ notice_raises => raises # "none"
    /\ LET player_id == op.e.player
           successful_breaks == op.successful_breaks
           xp_gained == grant_vein_experience(config, op.total_xp, successful_breaks)
           after == IF raises = "durability" THEN NothingRecorded(Self)
                    ELSE AfterProcessing(Self, config, player_id, successful_breaks, now)
           recorded == after.self
           out == IF raises = "none"
                  THEN [op.out EXCEPT
                          !.self = [recorded EXCEPT !.last_vein_mine = Put(@, player_id, now)],
                          !.exit = "processed"]
                  ELSE [ExceptClause(recorded, player_id, now, notice_raises,
                                     op.out.checks, TRUE)
                          EXCEPT !.msgs = op.out.msgs \o @,
                                 !.is_cancelled = TRUE,
                                 !.vein = op.out.vein]
           final == [out EXCEPT !.self = Release(out.self, player_id)]
           o == [ attempts |-> op.attempts, results |-> op.results,
                  successful_breaks |-> successful_breaks,
                  total_xp |-> op.total_xp,
                  xp_gained |-> xp_gained,
                  items |-> AddDrops(op.items_to_give, op.dropped),
                  summary |-> raises # "durability",
                  usage |-> after.usage,
                  stats |-> after.stats,
                  returned_at |-> now ]
       IN  /\ SetSelf(final.self)
           /\ ev' = Returned(op.id, op.e, op.time, op.before, op.world_before, world,
                          final, o)
    /\ op' = IdleOp
    /\ deviations' = IF raises # "none" THEN deviations + 1 ELSE deviations
    /\ UNCHANGED <<world, config, start, fv, now, disabled_players, events, ticks,
                   neighbor_offsets, cooldown_notices, daily_reset_scheduled, statsVars>>

\* Time passes between two calls of the handler.
TickWithin(d, max_events) ==
    /\ op.pc = "idle"
    /\ events < max_events
    /\ ticks < MaxTicks
    /\ now' = now + d
    /\ ticks' = ticks + 1
    /\ UNCHANGED <<world, config, start, fv, pluginVars, disabled_players, op, ev,
                   events, deviations, neighbor_offsets, cooldown_notices, daily_reset_scheduled, statsVars>>

Tick(d) == TickWithin(d, MaxEvents)

\* The command "/veinminer reload" between two calls of the handler:
\* reload_configuration clears its caches and load_config reads the
\* configuration c from the file.
ReloadWithin(c, max_events) ==
    /\ op.pc = "idle"
    /\ events < max_events
    /\ deviations < MaxDeviations
    /\ SetSelf(reload_configuration(Self))
    /\ neighbor_offsets' = None
    /\ config' = c
    /\ ev' = [ id |-> 0, exit |-> "reload", before |-> Self,
               after |-> reload_configuration(Self) ]
    /\ deviations' = deviations + 1
    /\ cooldown_notices' = [p \in DOMAIN cooldown_notices |->
                               [cooldown_notices[p] EXCEPT !.pending = TRUE]]
    /\ UNCHANGED <<world, start, fv, now, disabled_players, op, events, ticks,
                   daily_reset_scheduled, statsVars>>

Reload(c) == ReloadWithin(c, MaxEvents)

Next ==
    \/ \E e \in Events : BreakEvent(e)
    \/ \E outcome \in BlockOutcomes(config) : ProcessBlock(outcome)
    \/ \E raises \in FinishRaises : \E notice_raises \in BOOLEAN :
          FinishVein(raises, notice_raises)
    \/ \E d \in Deltas : Tick(d)
    \/ \E c \in GateConfigs : Reload(c)

Spec == Init /\ [][Next]_vars

----------------------------------------------------------------------------
(* The handler on the wide sheet: SpecCap                                  *)
(* The same handler in the world whose search runs into the iteration cap. *)

CapEvents == {NormalEvent(p, WideStart) : p \in Players}

InitCap ==
    /\ world = WideWorld
    /\ config \in {WideConfig, WideConfigSmall}
    /\ start = WideStart
    /\ fv = FvInit(start)
    /\ neighbor_offsets = None
    /\ HandlerIdle

NextCap ==
    \/ \E e \in CapEvents : BreakEvent(e)
    \/ \E outcome \in BlockOutcomes(config) : ProcessBlock(outcome)
    \/ \E raises \in FinishRaises : \E notice_raises \in BOOLEAN :
          FinishVein(raises, notice_raises)
    \/ \E d \in Deltas : Tick(d)

SpecCap == InitCap /\ [][NextCap]_vars

----------------------------------------------------------------------------
(* The handler on a cluster of six blocks: SpecScenario                    *)
(* Six blocks of iron ore connected through their faces, a seventh that    *)
(* touches the cluster by an edge only, and stone; the host answers every  *)
(* call without raising.                                                   *)

ScenarioCluster ==
    { <<0, 64, 0>>, <<1, 64, 0>>, <<2, 64, 0>>, <<2, 65, 0>>, <<2, 65, 1>>, <<2, 66, 1>> }

ScenarioWorld ==
    [p \in ScenarioCluster \cup {<<0, 65, 1>>, <<1, 65, 0>>} |->
        IF p = <<1, 65, 0>> THEN STONE ELSE IRON_ORE]

ScenarioConfig == [DefaultConfig EXCEPT !.include_diagonals = FALSE]

ScenarioEvents == {NormalEvent("p1", b) : b \in {<<0, 64, 0>>, <<2, 66, 1>>}}

InitScenario ==
    /\ world = ScenarioWorld
    /\ config = ScenarioConfig
    /\ start = WideStart
    /\ fv = FvInit(start)
    /\ neighbor_offsets = None
    /\ HandlerIdle

NextScenario ==
    \/ \E e \in ScenarioEvents : BreakEvent(e)
    \/ ProcessBlock("ok")
    \/ FinishVein("none", FALSE)

SpecScenario == InitScenario /\ [][NextScenario]_vars

----------------------------------------------------------------------------
(* Properties of the vein search                                           *)

\* The blocks of the start block's type reachable from the start through
\* the neighbor offsets, by steps that stay within max reach of the start
\* and within the world's height.
RECURSIVE Closure(_, _, _, _)
Closure(w, c, s, acc) ==
    LET offs == Range(build_neighbor_offsets(c))
        more == {q \in {Add(p, o) : p \in acc, o \in offs} :
                    /\ q \notin acc
                    /\ InHeight(q)
                    /\ InReach(c, q, s)
                    /\ BlockAt(w, q) = BlockAt(w, s)}
    IN  IF more = {} THEN acc ELSE Closure(w, c, s, acc \cup more)

Component(w, c, s) == Closure(w, c, s, {s})

\* C1: the vein find_vein returns has at most max_blocks members, each
\* within max_reach_distance of the start (squared distance at most the
\* squared reach) and at a height in [MIN_WORLD_HEIGHT, MAX_WORLD_HEIGHT].
C1_VeinBounded ==
    fv.pc = "returned" =>
        /\ Cardinality(Range(fv.vein)) <= config.max_blocks
        /\ \A p \in Range(fv.vein) :
              /\ DistSq(p, start) <= config.max_reach_distance * config.max_reach_distance
              /\ p[2] >= MIN_WORLD_HEIGHT
              /\ p[2] <= MAX_WORLD_HEIGHT

\* A returned vein that is full, next to a block of its type above the
\* world's height limit and in a world with such a block out of reach.
C1_Witness ==
    /\ fv.pc = "returned"
    /\ Len(fv.vein) = config.max_blocks
    /\ \E p \in Range(fv.vein) :
          \E o \in Range(build_neighbor_offsets(config)) :
              /\ BlockAt(world, Add(p, o)) = BlockAt(world, start)
              /\ Add(p, o)[2] > MAX_WORLD_HEIGHT
    /\ \E q \in DOMAIN world :
          /\ BlockAt(world, q) = BlockAt(world, start)
          /\ ~InReach(config, q, start)

\* C2: when the component of the start block has at most max_blocks
\* members, find_vein returns exactly that component.
C2_CompleteBelowCap ==
    (fv.pc = "returned" /\ Cardinality(Component(world, config, start)) <= config.max_blocks)
        => Range(fv.vein) = Component(world, config, start)

\* C9: when the component of the start block has more than max_blocks
\* members, find_vein returns exactly max_blocks blocks.
C9_ExactlyMaxDiscovered ==
    (fv.pc = "returned" /\ Cardinality(Component(world, config, start)) > config.max_blocks)
        => Cardinality(Range(fv.vein)) = config.max_blocks

\* The members of S connected to acc by chains of members of S whose
\* consecutive positions differ by one of the neighbor offsets.
RECURSIVE ConnectedWithin(_, _, _)
ConnectedWithin(S, offs, acc) ==
    LET more == {q \in S \ acc : \E p \in acc : \E o \in offs : Add(p, o) = q}
    IN  IF more = {} THEN acc ELSE ConnectedWithin(S, offs, acc \cup more)

\* C14: every member of a non-empty vein find_vein returns has the start
\* block's type, the start position is a member, no position occurs twice,
\* and every member is connected to the start by a chain of members whose
\* consecutive positions differ by one of the neighbor offsets.
C14_VeinConnected ==
    (fv.pc = "returned" /\ fv.vein # <<>>) =>
        /\ \A p \in Range(fv.vein) : BlockAt(world, p) = BlockAt(world, start)
        /\ start \in Range(fv.vein)
        /\ \A i, j \in 1..Len(fv.vein) : i # j => fv.vein[i] # fv.vein[j]
        /\ ConnectedWithin(Range(fv.vein), Range(neighbor_offsets), {start})
             = Range(fv.vein)

\* A returned vein with a member that is no neighbor of the start, in a
\* world with a block of another type.
C14_Witness ==
    /\ fv.pc = "returned"
    /\ Len(fv.vein) >= 3
    /\ \E p \in Range(fv.vein) :
          /\ p # start
          /\ \A o \in Range(neighbor_offsets) : Add(start, o) # p
    /\ \E q \in DOMAIN world : BlockAt(world, q) # BlockAt(world, start)

----------------------------------------------------------------------------
(* Properties of the neighbor offsets                                      *)

\* C13: the list build_neighbor_offsets returns has at most MAX_OFFSETS
\* entries and none of them is the zero offset.
C13_OffsetsBounded ==
    neighbor_offsets # None =>
        /\ Len(neighbor_offsets) <= MAX_OFFSETS
        /\ \A i \in 1..Len(neighbor_offsets) : neighbor_offsets[i] # <<0, 0, 0>>

\* The list of a pattern whose loops yield more than MAX_OFFSETS offsets and
\* pass the zero offset before the cap.
C13_Witness ==
    /\ neighbor_offsets # None
    /\ Len(neighbor_offsets) = MAX_OFFSETS
    /\ config.mining_pattern = "horizontal"
    /\ Len(PatternOffsets(config)) > MAX_OFFSETS
    /\ \E i \in 1..MAX_OFFSETS : neighbor_offsets[i] = <<0, 0, 1>>

----------------------------------------------------------------------------
(* Properties of the tool durability                                       *)
(* ev is what the call of apply_tool_durability did: the tool it was given *)
(* and the item in the main hand after it.                                 *)

DurabilityCall == ev.exit = "durability"

\* The tool is in the main hand after the call, whatever its damage.
ToolInHand == ev.hand.type = ev.tool.type

\* With break_on_exceed disabled the tool stays in the hand and a damage
\* below the maximum stays below it.
NeverBrokenWhenDisabled ==
    (DurabilityCall /\ ~config.break_on_exceed) =>
        /\ ToolInHand
        /\ ev.tool.damage < ev.tool.max_durability
              => ev.hand.damage < ev.hand.max_durability

----------------------------------------------------------------------------
(* Properties of the handler on the wide sheet                             *)

\* The search of the event's call left its loop through the iteration cap.
SearchCapped ==
    /\ ev.searched
    /\ FvRun(ev.world_before, config, ev.block, BlockAt(ev.world_before, ev.block),
             FvInit(ev.block)).pc = "capped"

\* C11: a break event whose search exceeds the iteration cap, or whose vein
\* has more than twice max_blocks members, is aborted: no block is attempted
\* or cleared, no drops and no XP are given and no usage is recorded.
C11_IntegrityAborts ==
    (/\ ev.id # 0
     /\ \/ SearchCapped
        \/ Cardinality(ev.vein) > 2 * config.max_blocks)
        => /\ ev.attempts = EmptyDict
           /\ ev.world_after = ev.world_before
           /\ ev.items = EmptyDict
           /\ ev.xp_gained = 0
           /\ ev.usage = <<>>
           /\ ev.stats = <<>>

\* C17: on the cluster of six iron-ore blocks, with pattern adjacent, no
\* diagonals, max_blocks 64 and an unenchanted iron pickaxe, the vein found
\* is the six blocks, and an operation that breaks all of them gives
\* exactly 6 raw_iron and 6 XP.
C17_SixBlocks ==
    (ev.id # 0 /\ ev.searched) =>
        /\ ev.vein = ScenarioCluster
        /\ Cardinality(ev.vein) = 6
        /\ (ev.summary /\ ev.successful_breaks = 6) =>
              /\ ev.items = Put(EmptyDict, "minecraft:raw_iron", 6)
              /\ ev.xp_gained = 6

\* The operation on the six blocks, ended with all of them cleared.
C17_Witness ==
    /\ ev.id # 0
    /\ ev.exit = "processed"
    /\ ev.successful_breaks = 6
    /\ \A b \in ScenarioCluster : BlockAt(world, b) = AIR
    /\ BlockAt(world, <<0, 65, 1>>) = IRON_ORE

----------------------------------------------------------------------------
(* Properties of the break-event handler                                   *)
(* ev is what the latest returned call of on_block_break did: the plugin's *)
(* state before and after it, the checks it ran and how it left.           *)

Returns == ev.id # 0

\* The timestamps of the player's window that a pruning at the time of the
\* event keeps.
WindowAtEvent ==
    Len(PruneWindow(Get(ev.before.minute_vein_count, ev.player, <<>>), ev.time))

\* process_vein_mining was called.
Processed == ev.is_cancelled

\* The checks of the gate among those the call ran, in the order it ran them.
GateChecks ==
    SelectSeq(ev.checks,
              LAMBDA k: k \in {"temporary_block", "cooldown", "processing",
                               "rate_limit", "daily_limit"})

IsPrefix(s, t) == Len(s) <= Len(t) /\ s = SubSeq(t, 1, Len(s))

\* C3: a call that acquired the processing flag leaves the player's id out
\* of processing_vein when it returns, whatever way it returns.
C3_FlagReleased ==
    (Returns /\ ev.acquired) => ev.player \notin ev.after.processing_vein

\* A call that broke blocks and then raised an exception.
C3_Witness ==
    /\ Returns
    /\ ev.acquired
    /\ ev.exit = "exception"
    /\ ev.successful_breaks > 0

\* C4 as stated: an event whose player has at least max_veins_per_minute
\* operations left after the pruning is rejected without a search and the
\* player is blocked until now + temporary_block_duration * 60000.
C4_AsStated ==
    (Returns /\ WindowAtEvent >= config.max_veins_per_minute)
        => /\ ~ev.searched
           /\ ~Processed
           /\ ev.player \in DOMAIN ev.after.blocked_players
           /\ ev.after.blocked_players[ev.player]
                = ev.time + config.temporary_block_duration * 60000

\* C4, amended: an event that reaches the rate-limit check, under a positive
\* max_veins_per_minute, with at least that many operations left after the
\* pruning, is rejected there without a search and the player is blocked
\* until now + temporary_block_duration * 60000.
C4_RateLimitRejects ==
    (/\ Returns
     /\ "rate_limit" \in Range(ev.checks)
     /\ config.max_veins_per_minute > 0
     /\ WindowAtEvent >= config.max_veins_per_minute)
        => /\ ev.exit = "rate_limit"
           /\ ~ev.searched
           /\ ~Processed
           /\ ev.player \in DOMAIN ev.after.blocked_players
           /\ ev.after.blocked_players[ev.player]
                = ev.time + config.temporary_block_duration * 60000

\* An event rejected by the rate limit with a full window.
C4_Witness ==
    /\ Returns
    /\ ev.exit = "rate_limit"
    /\ config.max_veins_per_minute > 0
    /\ WindowAtEvent = config.max_veins_per_minute

C6_BlockExpires ==
    (/\ Returns
     /\ "temporary_block" \in Range(ev.checks)
     /\ ev.player \in DOMAIN ev.before.blocked_players
     /\ ev.time >= ev.before.blocked_players[ev.player])
        => /\ ev.exit # "temporary_block"
           /\ ev.player \notin DOMAIN ev.after.blocked_players

\* An event at exactly the unblock time of its player.
C6_Witness ==
    /\ Returns
    /\ ev.player \in DOMAIN ev.before.blocked_players
    /\ ev.time = ev.before.blocked_players[ev.player]
    /\ ev.exit = "processed"

\* The daily counters of the event's player before the call.
VeinsToday == Get(ev.before.daily_vein_count, ev.player, 0)

BlocksToday == Get(ev.before.daily_block_count, ev.player, 0)

\* C7: a call that reaches the daily check with limits enabled and the vein
\* count at its maximum, or the block count plus min(vein size, max_blocks)
\* above its maximum, is rejected: no block is attempted, the world and the
\* usage counters stay as they were; with limits disabled the daily check
\* rejects nothing.
C7_DailyLimits ==
    (Returns /\ "daily_limit" \in Range(ev.checks)) =>
        /\ (/\ config.enable_limits
            /\ \/ VeinsToday >= config.max_veins_per_day
               \/ BlocksToday + Min(Cardinality(ev.vein), config.max_blocks)
                     > config.max_blocks_per_day)
              => /\ ev.exit \in {"daily_limit", "exception"}
                 /\ ~Processed
                 /\ ev.attempts = EmptyDict
                 /\ ev.world_after = ev.world_before
                 /\ ev.usage = <<>>
                 /\ ev.after.daily_vein_count = ev.before.daily_vein_count
                 /\ ev.after.daily_block_count = ev.before.daily_block_count
                 /\ Len(Get(ev.after.minute_vein_count, ev.player, <<>>))
                      <= Len(Get(ev.before.minute_vein_count, ev.player, <<>>))
        /\ ~config.enable_limits
              => (ev.exit # "daily_limit" /\ "limit-reached" \notin Range(ev.msgs))

\* A vein rejected by the block quota alone.
C7_Witness ==
    /\ Returns
    /\ ev.exit = "daily_limit"
    /\ VeinsToday < config.max_veins_per_day
    /\ Cardinality(ev.vein) > 1

\* The player's last-operation timestamp before the call.
LastMine == Get(ev.before.last_vein_mine, ev.player, 0)

\* The call found a vein of at least min_vein_size and passed the daily check.
PassedDailyCheck ==
    /\ "daily_limit" \in Range(ev.checks)
    /\ Cardinality(ev.vein) >= config.min_vein_size
    /\ check_daily_limits(ev.before, config, ev.player,
                          Min(Cardinality(ev.vein), config.max_blocks))

NoSearchInCooldown ==
    (Returns /\ ev.time - LastMine < config.cooldown_ms)
        => /\ ~ev.searched
           /\ ~Processed
           /\ ev.attempts = EmptyDict
           /\ ev.world_after = ev.world_before

Failing == {"type_raises", "clear_raises", "drop_raises"}

\* The XP of the blocks at the positions S of the world w.
RECURSIVE SumXp(_, _)
SumXp(S, w) ==
    IF S = {} THEN 0
    ELSE LET b == CHOOSE x \in S : TRUE
         IN  calculate_ore_xp(BlockAt(w, b)) + SumXp(S \ {b}, w)

\* C10: process_vein_mining attempts every member of the vein exactly once;
\* a block whose processing raised is not counted and adds no drops and no
\* XP; successful_breaks is the number of members whose processing did not
\* raise, and total_xp their XP.
C10_EveryBlockOnce ==
    (Returns /\ Processed) =>
        /\ DOMAIN ev.attempts = ev.vein
        /\ \A b \in ev.vein : ev.attempts[b] = 1
        /\ \A b \in ev.vein :
              IF ev.results[b].outcome \in Failing
              THEN /\ ~ev.results[b].success
                   /\ ev.results[b].xp = 0
                   /\ ev.results[b].drops = EmptyDict
              ELSE /\ ev.results[b].success
                   /\ ev.results[b].xp
                        = calculate_ore_xp(BlockAt(ev.world_before, b))
        /\ ev.successful_breaks
             = Cardinality({b \in ev.vein : ev.results[b].outcome \notin Failing})
        /\ ev.total_xp
             = SumXp({b \in ev.vein : ev.results[b].outcome \notin Failing},
                     ev.world_before)

\* A vein of more blocks than one batch holds, with one block that failed.
C10_Witness ==
    /\ Returns
    /\ Processed
    /\ Cardinality(ev.vein) > config.batch_size
    /\ \E b \in ev.vein : ev.results[b].outcome \in Failing
    /\ \E b \in ev.vein : ev.results[b].success

\* The player's rate window after the call if record_vein_usage ran n times
\* at the end of the call.
WindowAfter(n) ==
    LET before == Get(ev.before.minute_vein_count, ev.player, <<>>)
        kept == IF "rate_limit" \in Range(ev.checks) /\ config.max_veins_per_minute > 0
                THEN PruneWindow(before, ev.time)
                ELSE before
    IN  IF n = 0 THEN kept ELSE Append(kept, ev.returned_at)

C15_ReloadClearsAll ==
    ev.exit = "reload" =>
        /\ ev.after.last_vein_mine = EmptyDict
        /\ ev.after.processing_vein = {}
        /\ \A p \in DOMAIN ev.after.minute_vein_count :
              ev.after.minute_vein_count[p] = <<>>
        /\ ev.after.daily_vein_count = EmptyDict
        /\ ev.after.daily_block_count = EmptyDict
        /\ ev.after.blocked_players = EmptyDict

\* The state the plugin keeps for the players other than the event's.
OthersState(self, player_id) ==
    [ last_vein_mine |-> [p \in DOMAIN self.last_vein_mine \ {player_id} |->
                             self.last_vein_mine[p]],
      processing_vein |-> self.processing_vein \ {player_id},
      minute_vein_count |-> [p \in DOMAIN self.minute_vein_count \ {player_id} |->
                                self.minute_vein_count[p]],
      daily_vein_count |-> [p \in DOMAIN self.daily_vein_count \ {player_id} |->
                               self.daily_vein_count[p]],
      daily_block_count |-> [p \in DOMAIN self.daily_block_count \ {player_id} |->
                                self.daily_block_count[p]],
      blocked_players |-> [p \in DOMAIN self.blocked_players \ {player_id} |->
                              self.blocked_players[p]] ]

OthersUnchanged ==
    Returns => OthersState(ev.after, ev.player) = OthersState(ev.before, ev.player)

\* C18: a break event leaves the cooldown timestamp, the processing flag,
\* the rate window, the daily counters and the temporary block of every
\* other player unchanged, and no exception leaves a call of on_block_break
\* that started its search.
C18_Isolated ==
    /\ OthersUnchanged
    /\ (Returns /\ ev.searched) => ~ev.propagated

\* A break event delivered while its player's processing flag is set.
Nested == Returns /\ ev.player \in ev.before.processing_vein

\* C19: a break event delivered for a player whose processing flag is set
\* (the event a cleared block triggers while process_vein_mining runs) starts
\* no vein search, clears no block, records no usage, sets no temporary
\* block and leaves the flag of the outer operation in place; so a search or
\* a processing pass only ever starts for a player whose flag is not set.
C19_NestedRejected ==
    /\ Nested =>
          /\ ~ev.searched
          /\ ev.exit \notin {"processed", "exception"}
          /\ ev.world_after = ev.world_before
          /\ ev.attempts = EmptyDict
          /\ ev.usage = <<>>
          /\ ev.stats = <<>>
          /\ ev.after.minute_vein_count = ev.before.minute_vein_count
          /\ ev.after.daily_vein_count = ev.before.daily_vein_count
          /\ ev.after.daily_block_count = ev.before.daily_block_count
          /\ ev.after.blocked_players = ev.before.blocked_players
          /\ ev.player \in ev.after.processing_vein
    /\ (Returns /\ (ev.searched \/ ev.acquired)) =>
          ev.player \notin ev.before.processing_vein
    /\ op.pc = "processing" => op.e.player \in processing_vein

\* A nested event reached the test of the processing flag and was rejected
\* by it, while the outer operation had already cleared a block.
C19_Witness ==
    /\ Nested
    /\ ev.exit = "processing"
    /\ op.pc = "processing"
    /\ op.e.player = ev.player
    /\ op.successful_breaks > 0

\* A break event of a player delivered before that player's unblock time.
StillBlocked ==
    /\ Returns
    /\ ev.player \in DOMAIN ev.before.blocked_players
    /\ ev.time < ev.before.blocked_players[ev.player]

\* C20: while the current time is before a player's unblock time, every
\* break event of that player is rejected, no message is sent to the
\* player, the player's cooldown timestamp, rate window, daily counters and
\* processing flag are unchanged, and the unblock time stays as it was.
C20_BlockedSilently ==
    StillBlocked =>
        /\ ev.exit \in {"temporary_block", "event_cancelled"}
        /\ ev.msgs = <<>>
        /\ ~ev.propagated
        /\ ~ev.searched
        /\ ev.world_after = ev.world_before
        /\ ev.after = ev.before

\* A blocked player's event was rejected by the temporary-block check at a
\* time later than the one at which the block was set.
C20_Witness ==
    /\ StillBlocked
    /\ ev.exit = "temporary_block"
    /\ ev.before.blocked_players[ev.player]
           < ev.time + (config.temporary_block_duration * 60 * 1000)

\* Rejections by the cooldown, the processing flag, the daily limit, the
\* permission, the toggle, a disabled world, the activation mode, a wrong tool.
NamedRejections ==
    {"cooldown", "processing", "daily_limit", "permission", "toggle", "world",
     "activation", "wrong_tool"}

\* The rejections other than the one by the rate limit.
OtherRejections == NamedRejections \cup {"block_permission", "vein_block"}

\* C21 as stated: a rejection by the cooldown, the processing flag, the
\* daily limit, the permission, the toggle, a disabled world, the
\* activation mode or a wrong tool leaves blocked_players unchanged.
C21_AsStated ==
    (Returns /\ ev.exit \in NamedRejections) =>
        ev.after.blocked_players = ev.before.blocked_players

\* C21: a temporary-block entry is created, or its unblock time changed,
\* only by a rate-limit rejection, and only for the rejected player; a call
\* rejected by another check leaves blocked_players as it was, except that
\* is_player_blocked has deleted the caller's entry if it had expired.
C21_OnlyRateLimit ==
    Returns =>
        /\ \A q \in DOMAIN ev.after.blocked_players :
              \/ /\ q \in DOMAIN ev.before.blocked_players
                 /\ ev.after.blocked_players[q] = ev.before.blocked_players[q]
              \/ /\ ev.exit = "rate_limit"
                 /\ q = ev.player
                 /\ ev.after.blocked_players[q]
                      = ev.time + (config.temporary_block_duration * 60 * 1000)
        /\ ev.exit \in OtherRejections =>
              \/ ev.after.blocked_players = ev.before.blocked_players
              \/ /\ ev.player \in DOMAIN ev.before.blocked_players
                 /\ ev.time >= ev.before.blocked_players[ev.player]
                 /\ ev.after.blocked_players = Del(ev.before.blocked_players, ev.player)

\* A call was rejected by a check other than the rate limit while another
\* player's temporary block was in place, and the block stayed as it was.
C21_Witness ==
    /\ Returns
    /\ ev.exit \in OtherRejections
    /\ ev.before.blocked_players # EmptyDict
    /\ ev.after.blocked_players = ev.before.blocked_players

\* The offsets of [-r, r]^3.
Box(r) == {<<dx, dy, dz>> : dx \in -r..r, dy \in -r..r, dz \in -r..r}

\* The set of offsets documented for the pattern of c.
DocumentedOffsets(c) ==
    IF c.mining_pattern = "adjacent"
    THEN {o \in Box(1) \ {<<0, 0, 0>>} :
            c.include_diagonals \/ Abs(o[1]) + Abs(o[2]) + Abs(o[3]) = 1}
    ELSE IF c.mining_pattern = "cube"
    THEN Box(c.pattern_radius) \ {<<0, 0, 0>>}
    ELSE IF c.mining_pattern = "sphere"
    THEN {o \in Box(c.pattern_radius) \ {<<0, 0, 0>>} :
            o[1] * o[1] + o[2] * o[2] + o[3] * o[3]
                <= c.pattern_radius * c.pattern_radius}
    ELSE IF c.mining_pattern = "vertical"
    THEN {<<0, dy, 0>> : dy \in (-c.vertical_range..c.vertical_range) \ {0}}
    ELSE {o \in {<<dx, 0, dz>> : dx \in -c.horizontal_range..c.horizontal_range,
                                 dz \in -c.horizontal_range..c.horizontal_range}
                \ {<<0, 0, 0>>} :
            c.include_diagonals \/ Abs(o[1]) + Abs(o[3]) = 1}

\* C22: whenever the configured pattern yields at most 512 offsets, the
\* list built by build_neighbor_offsets has no duplicates and holds exactly
\* the offsets documented for the pattern: 26 or 6 for adjacent, the box
\* without zero for cube, the ball within it for sphere, the column for
\* vertical, the plane (its four unit offsets without diagonals) for
\* horizontal.
C22_OffsetsExact ==
    (neighbor_offsets # None /\ Cardinality(DocumentedOffsets(config)) <= MAX_OFFSETS) =>
        /\ Range(neighbor_offsets) = DocumentedOffsets(config)
        /\ Len(neighbor_offsets) = Cardinality(DocumentedOffsets(config))
        /\ config.mining_pattern = "adjacent" =>
              Len(neighbor_offsets) = IF config.include_diagonals THEN 26 ELSE 6

\* The list of a sphere of radius 4 was built: 256 offsets, below the cap,
\* the pole <<0, 4, 0>> among them and the corner <<3, 3, 3>> not.
C22_Witness ==
    /\ neighbor_offsets # None
    /\ config.mining_pattern = "sphere"
    /\ config.pattern_radius = 4
    /\ Len(neighbor_offsets) = 256
    /\ <<0, 4, 0>> \in Range(neighbor_offsets)
    /\ <<3, 3, 3>> \notin Range(neighbor_offsets)

\* The iteration cap as the documentation gives it.
DocumentedCap == Max(100, 10 * config.max_blocks)

\* No position is in the queue twice, and every queued position is visited.
QueueDistinct(f) ==
    /\ \A i, j \in 1..Len(f.queue) : i # j => f.queue[i] # f.queue[j]
    /\ Range(f.queue) \subseteq f.visited

\* The search is bounded: the passes that dequeued a position number at most
\* the cap, and a search that has returned ended for one of three reasons.
SearchBounded ==
    /\ QueueDistinct(fv)
    /\ fv.iterations <= DocumentedCap + 1
    /\ fv.pc = "returned" =>
          \/ fv.queue = <<>>
          \/ Len(fv.vein) >= config.max_blocks
          \/ fv.iterations > DocumentedCap

\* A pass runs only while the queue is not empty, the vein is below
\* max_blocks and the cap was not exceeded; it dequeues one position unless
\* it exceeds the cap; what it enqueues was not visited before and is so
\* afterwards; visited only grows.
PassBounded ==
    fv'.iterations # fv.iterations =>
        /\ fv'.iterations = fv.iterations + 1
        /\ fv.queue # <<>>
        /\ Len(fv.vein) < config.max_blocks
        /\ fv.iterations <= DocumentedCap
        /\ fv.visited \subseteq fv'.visited
        /\ IF fv'.iterations > DocumentedCap
           THEN fv'.queue = fv.queue /\ fv'.vein = fv.vein
           ELSE LET kept == Len(fv.queue) - 1
                IN  /\ Len(fv'.queue) >= kept
                    /\ SubSeq(fv'.queue, 1, kept) = Tail(fv.queue)
                    /\ \A i \in (kept + 1)..Len(fv'.queue) :
                          fv'.queue[i] \in fv'.visited \ fv.visited

\* C23: find_vein always terminates; each position is enqueued at most
\* once, the loop dequeues at most max(100, 10 * max_blocks) positions, and
\* it ends as soon as the queue is empty, the vein has max_blocks members
\* or the iteration cap is exceeded.
C23_Terminates ==
    /\ []SearchBounded
    /\ [][PassBounded]_vars
    /\ <>(fv.pc = "returned")

\* A search that the iteration cap ended: positions were still queued and
\* the vein was below max_blocks.
C23_Witness ==
    /\ fv.pc = "returned"
    /\ fv.iterations = DocumentedCap + 1
    /\ fv.queue # <<>>
    /\ Len(fv.vein) < config.max_blocks

\* The blocks of the start block's type within reach and height, by their
\* hop distance from the start: layer d + 1 holds those at d hops.
RECURSIVE HopLayers(_, _, _, _, _)
HopLayers(w, c, s, seen, frontier) ==
    LET offs == Range(build_neighbor_offsets(c))
        next == {q \in {Add(p, o) : p \in frontier, o \in offs} :
                    /\ q \notin seen
                    /\ InHeight(q)
                    /\ InReach(c, q, s)
                    /\ BlockAt(w, q) = BlockAt(w, s)}
    IN  IF frontier = {} THEN <<>>
        ELSE <<frontier>> \o HopLayers(w, c, s, seen \cup next, next)

\* The hop distance of a block of the layers.
HopOf(layers, p) == (CHOOSE d \in 1..Len(layers) : p \in layers[d]) - 1

\* The members of vein are in non-decreasing hop distance, and if vein has
\* max_blocks members no block of the layers outside it is nearer than a
\* member.
BreadthFirst(layers, vein, max_blocks) ==
    LET all == UNION Range(layers)
    IN  /\ Range(vein) \subseteq all
        /\ \A i, j \in 1..Len(vein) :
              i < j => HopOf(layers, vein[i]) <= HopOf(layers, vein[j])
        /\ Len(vein) = max_blocks =>
              \A p \in Range(vein) : \A q \in all \ Range(vein) :
                  HopOf(layers, p) <= HopOf(layers, q)

\* C24: find_vein takes positions in first-in, first-out order, so members
\* are added in non-decreasing hop distance from the start, and a result
\* truncated at max_blocks includes no block while a block of the same
\* type within reach at a strictly smaller hop distance is left out.
C24_BreadthFirst ==
    BreadthFirst(HopLayers(world, config, start, {start}, {start}),
                 fv.vein, config.max_blocks)

\* A returned vein truncated at max_blocks with members at one hop, which
\* leaves out a block at two hops.
C24_Witness ==
    LET layers == HopLayers(world, config, start, {start}, {start})
    IN  /\ fv.pc = "returned"
        /\ Len(fv.vein) = config.max_blocks
        /\ Len(layers) >= 3
        /\ layers[2] \subseteq Range(fv.vein)
        /\ layers[3] \ Range(fv.vein) # {}

----------------------------------------------------------------------------
(* The rewards on their own: SpecRewards                                   *)
(* Init draws the auto-smelt settings; a step is one call of               *)
(* get_fortune_drop_amount, should_auto_smelt or calculate_block_rewards    *)
(* with the outcomes of its random draws.  ev is what the call returned.   *)

\* The auto-smelt settings load_config can leave.
RewardConfigs ==
    {[DefaultConfig EXCEPT !.auto_smelt_enabled = e, !.auto_smelt_require_fortune = f,
                           !.auto_smelt_whitelist = wl] :
        e \in BOOLEAN, f \in BOOLEAN, wl \in {{}, {"iron_ore"}, {"gold_ore", "stone"}}}

\* Block ids with and without namespace.
RewardBlocks == ShortIds \cup {"minecraft:" \o s : s \in ShortIds}

RewardTools ==
    {NoTool} \cup {[type |-> t, silk_touch |-> s, fortune |-> f] :
                      t \in {"minecraft:iron_pickaxe", "minecraft:shears"},
                      s \in 0..1, f \in {0, 3}}

\* The draws a call of calculate_block_rewards on this block and tool makes.
RollsFor(block_type, tool) ==
    LET short_id == normalize_block_id(block_type)
    IN  IF IsLeaves(short_id)
        THEN IF tool.silk_touch > 0 \/ "shears" \in get_tool_traits(tool)
             THEN {NoRolls}
             ELSE LET saplings == IF short_id \in DOMAIN sapling_drops THEN BOOLEAN
                                  ELSE {FALSE}
                  IN  {[NoRolls EXCEPT !.sapling = a] : a \in saplings}
                      \cup {[NoRolls EXCEPT !.sapling = a, !.stick = TRUE, !.sticks = n] :
                               a \in saplings, n \in 1..2}
        ELSE IF tool.silk_touch > 0 THEN {NoRolls}
        ELSE {[NoRolls EXCEPT !.base_count = b, !.bonus_roll = r] :
                 b \in BaseCounts(short_id), r \in BonusRolls(short_id, tool.fortune)}

InitRewards ==
    /\ world = [p \in SmallGrid |-> IRON_ORE]
    /\ config \in RewardConfigs
    /\ start = <<0, MAX_WORLD_HEIGHT, 0>>
    /\ fv = FvInit(start)
    /\ neighbor_offsets = None
    /\ HandlerIdle

GetFortuneDropAmount(block_id, fortune_level, base_count, bonus_roll) ==
    /\ ev = NoEvent
    /\ ev' = [ id |-> 0, exit |-> "fortune", block_id |-> block_id,
               fortune_level |-> fortune_level, base_count |-> base_count,
               bonus_roll |-> bonus_roll,
               amount |-> get_fortune_drop_amount(block_id, fortune_level,
                                                  base_count, bonus_roll) ]
    /\ UNCHANGED <<world, config, start, fv, now, pluginVars, disabled_players, op,
                   events, deviations, ticks, neighbor_offsets, cooldown_notices,
                   daily_reset_scheduled, statsVars>>

ShouldAutoSmelt(block_id, silk_touch_level, fortune_level) ==
    /\ ev = NoEvent
    /\ ev' = [ id |-> 0, exit |-> "auto_smelt", block_id |-> block_id,
               silk_touch_level |-> silk_touch_level, fortune_level |-> fortune_level,
               result |-> should_auto_smelt(config, block_id, silk_touch_level,
                                            fortune_level) ]
    /\ UNCHANGED <<world, config, start, fv, now, pluginVars, disabled_players, op,
                   events, deviations, ticks, neighbor_offsets, cooldown_notices,
                   daily_reset_scheduled, statsVars>>

CalculateBlockRewards(block_type, tool, rolls) ==
    /\ ev = NoEvent
    /\ LET rewards == calculate_block_rewards(config, block_type, tool, rolls)
       IN  ev' = [ id |-> 0, exit |-> "rewards", block_type |-> block_type,
                   tool |-> tool, rolls |-> rolls, drops |-> rewards.drops,
                   xp |-> rewards.xp, smelt_xp |-> rewards.smelt_xp ]
    /\ UNCHANGED <<world, config, start, fv, now, pluginVars, disabled_players, op,
                   events, deviations, ticks, neighbor_offsets, cooldown_notices,
                   daily_reset_scheduled, statsVars>>

NextRewards ==
    \/ \E block_id \in RewardBlocks : \E fortune_level \in -1..3 :
          \E base_count \in BaseCounts(normalize_block_id(block_id)) :
            \E bonus_roll \in BonusRolls(normalize_block_id(block_id), fortune_level) :
              GetFortuneDropAmount(block_id, fortune_level, base_count, bonus_roll)
    \/ \E block_id \in RewardBlocks : \E silk_touch_level \in 0..1 :
          \E fortune_level \in 0..3 :
            ShouldAutoSmelt(block_id, silk_touch_level, fortune_level)
    \/ \E block_type \in RewardBlocks : \E tool \in RewardTools :
          \E rolls \in RollsFor(block_type, tool) :
            CalculateBlockRewards(block_type, tool, rolls)

SpecRewards == InitRewards /\ [][NextRewards]_vars

----------------------------------------------------------------------------
(* The tool validation cache on its own: SpecToolCache                     *)
(* A step is a call of is_proper_tool, a run of the scheduled cleanup or a *)
(* reload of the configuration.                                            *)

\* The dict without the entries older than STALE_MS at time t.
DropStale(d, t) == [k \in {x \in DOMAIN d : ~(t - d[x] > STALE_MS)} |-> d[k]]

\* cleanup_cache: the tool validation cache is cleared once it holds more
\* than MAX_CACHE_SIZE entries; old timestamps are dropped.
cleanup_cache(self, t) ==
    [self EXCEPT
        !.tool_validation_cache = IF CacheLen(@) > MAX_CACHE_SIZE THEN EmptyCache ELSE @,
        !.last_vein_mine = DropStale(@, t),
        !.last_error_message = DropStale(@, t),
        !.last_cooldown_message = DropStale(@, t)]

\* Block ids and tools handed to is_proper_tool.
CacheBlocks ==
    {"minecraft:iron_ore", "iron_ore", "minecraft:oak_log", "minecraft:oak_leaves",
     "minecraft:stone"}

CacheTools ==
    {NoTool, IronPickaxe,
     [type |-> "minecraft:iron_axe", silk_touch |-> 0, fortune |-> 0],
     [type |-> "minecraft:shears", silk_touch |-> 0, fortune |-> 0]}

\* The cache is empty, or holds MAX_CACHE_SIZE entries of earlier calls
\* under other keys.
InitToolCache ==
    /\ world = [p \in SmallGrid |-> IRON_ORE]
    /\ config = DefaultConfig
    /\ start = <<0, MAX_WORLD_HEIGHT, 0>>
    /\ fv = FvInit(start)
    /\ neighbor_offsets = None
    /\ now = StartTime
    /\ last_vein_mine = EmptyDict
    /\ processing_vein = {}
    /\ last_error_message = EmptyDict
    /\ last_cooldown_message = EmptyDict
    /\ daily_vein_count = EmptyDict
    /\ daily_block_count = EmptyDict
    /\ minute_vein_count = EmptyDict
    /\ blocked_players = EmptyDict
    /\ tool_validation_cache \in {EmptyCache, [EmptyCache EXCEPT !.others = MAX_CACHE_SIZE]}
    /\ disabled_players = {}
    /\ op = IdleOp
    /\ ev = NoEvent
    /\ events = 0
    /\ deviations = 0
    /\ ticks = 0
    /\ cooldown_notices = EmptyDict
    /\ daily_reset_scheduled = config.enable_limits
    /\ stats_tracker = NewTracker(TRUE, TRUE, <<>>)
    /\ tracker_log = EmptyDict

IsProperTool(block_id, tool) ==
    /\ events < MaxEvents
    /\ LET proper == is_proper_tool(Self, block_id, tool)
       IN  /\ SetSelf(proper.self)
           /\ ev' = [ id |-> 0, exit |-> "proper_tool", block_id |-> block_id,
                      tool |-> tool, result |-> proper.result, hit |-> proper.hit ]
    /\ events' = events + 1
    /\ UNCHANGED <<world, config, start, fv, now, disabled_players, op, deviations, ticks,
                   neighbor_offsets, cooldown_notices, daily_reset_scheduled, statsVars>>

\* The scheduled task cleanup_cache runs.
CleanupCache ==
    /\ op.pc = "idle"
    /\ ticks < MaxTicks
    /\ SetSelf(cleanup_cache(Self, now))
    /\ ticks' = ticks + 1
    /\ UNCHANGED <<world, config, start, fv, now, disabled_players, op, ev, events,
                   deviations, neighbor_offsets, cooldown_notices, daily_reset_scheduled, statsVars>>

NextToolCache ==
    \/ \E block_id \in CacheBlocks : \E tool \in CacheTools : IsProperTool(block_id, tool)
    \/ CleanupCache
    \/ Reload(config)

SpecToolCache == InitToolCache /\ [][NextToolCache]_vars

----------------------------------------------------------------------------
(* The cooldown notice: SpecCooldown                                       *)
(* One more break event than in Spec, on two veins of one block each, so   *)
(* that a player can run into the cooldown of two operations; the time     *)
(* steps lie around the throttle of the notice.                            *)

MaxCooldownEvents == 4

CooldownDeltas == {500, 1001}

CooldownNoticeConfig == [DefaultConfig EXCEPT !.min_vein_size = 1, !.cooldown_ms = 3000]

CooldownWorld == [p \in LineGrid |-> IF p[1] = 1 THEN STONE ELSE IRON_ORE]

CooldownEvents ==
    {NormalEvent("p1", <<0, 64, 0>>), NormalEvent("p1", <<2, 64, 0>>),
     NormalEvent("p2", <<0, 64, 0>>)}

InitCooldown ==
    /\ world = CooldownWorld
    /\ config = CooldownNoticeConfig
    /\ start = WideStart
    /\ fv = FvInit(start)
    /\ neighbor_offsets = None
    /\ HandlerIdle

NextCooldown ==
    \/ \E e \in CooldownEvents : BreakEventWithin(e, MaxCooldownEvents)
    \/ ProcessBlock("ok")
    \/ FinishVein("none", FALSE)
    \/ \E d \in CooldownDeltas : TickWithin(d, MaxCooldownEvents)
    \/ ReloadWithin(config, MaxCooldownEvents)
    \/ CleanupCache

SpecCooldown == InitCooldown /\ [][NextCooldown]_vars

----------------------------------------------------------------------------
(* The cleanup task and the cooldown: SpecCleanup                          *)
(* The handler with the task cleanup_cache between calls, under a cooldown *)
(* shorter and a cooldown longer than the age at which cleanup_cache       *)
(* deletes a timestamp.                                                    *)

\* cooldown-ms: 400000, which load_config accepts as it is (299-302).
LongCooldownConfig == [CooldownNoticeConfig EXCEPT !.cooldown_ms = 400000]

CleanupDeltas == {1001, 300001}

InitCleanup ==
    /\ world = CooldownWorld
    /\ config \in {CooldownNoticeConfig, LongCooldownConfig}
    /\ start = WideStart
    /\ fv = FvInit(start)
    /\ neighbor_offsets = None
    /\ HandlerIdle

NextCleanup ==
    \/ \E e \in CooldownEvents : BreakEvent(e)
    \/ ProcessBlock("ok")
    \/ FinishVein("none", FALSE)
    \/ \E d \in CleanupDeltas : Tick(d)
    \/ CleanupCache

SpecCleanup == InitCleanup /\ [][NextCleanup]_vars

----------------------------------------------------------------------------
(* load_config: SpecConfig                                                 *)
(* The numeric settings that load_config validates.  A value of the file   *)
(* is an integer, a text that is no number, or absent.                     *)

IntRaw(n) == [kind |-> "int", value |-> n]

TextRaw == [kind |-> "str", value |-> 0]

AbsentRaw == [kind |-> "absent", value |-> 0]

\* config.get(key, default)
Setting(raw, default) == IF raw.kind = "absent" THEN IntRaw(default) ELSE raw

\* A comparison with a number raises TypeError for a text.
Comparable(v) == v.kind = "int"

\* The value the attribute holds after the assignment from the file.
RawValue(v) == IF Comparable(v) THEN v.value ELSE v

\* A faulty variant of load_max_blocks: only -1 is replaced.
load_max_blocks_unchecked(max_blocks) ==
    IF max_blocks = -1 THEN UNLIMITED_MAX_BLOCKS ELSE max_blocks

\* max-blocks: -1 is the safety cap, any other value outside
\* 1..UNLIMITED_MAX_BLOCKS the default.
load_max_blocks(max_blocks) ==
    IF max_blocks = -1 THEN UNLIMITED_MAX_BLOCKS
    ELSE IF max_blocks < 1 \/ max_blocks > UNLIMITED_MAX_BLOCKS THEN DEFAULT_MAX_BLOCKS
    ELSE max_blocks

load_min_vein_size(min_vein_size) == IF min_vein_size < 1 THEN 2 ELSE min_vein_size

load_cooldown_ms(cooldown_ms) == IF cooldown_ms < 0 THEN COOLDOWN_MS ELSE cooldown_ms

load_batch_size(batch_size) ==
    IF batch_size < 1 \/ batch_size > MAX_BATCH_SIZE THEN BATCH_SIZE ELSE batch_size

clamp_pattern_radius(pattern_radius) ==
    LET low == IF pattern_radius < 1 THEN 1 ELSE pattern_radius
    IN  IF low > MAX_PATTERN_RADIUS THEN MAX_PATTERN_RADIUS ELSE low

range_at_least_one(range) == IF range < 1 THEN 1 ELSE range

range_at_most_max(range) == IF range > MAX_PATTERN_RANGE THEN MAX_PATTERN_RANGE ELSE range

\* int(value) raises for a text that is no number; the except clause sets
\* the default, as a value below 1 does.
load_temporary_block_duration(v) ==
    IF ~Comparable(v) THEN 5
    ELSE IF v.value < 1 THEN 5
    ELSE v.value

\* The mining-pattern part of load_config: the three assignments, then the
\* six tests in the order of the source.
load_pattern(cfg, raw) ==
    LET radius == Setting(raw.pattern_radius, 1)
        vertical == Setting(raw.vertical_range, 4)
        horizontal == Setting(raw.horizontal_range, 4)
        assigned == [cfg EXCEPT !.pattern_radius = RawValue(radius),
                                !.vertical_range = RawValue(vertical),
                                !.horizontal_range = RawValue(horizontal)]
    IN  IF ~Comparable(radius) THEN [raised |-> TRUE, config |-> assigned]
        ELSE LET c1 == [assigned EXCEPT
                           !.pattern_radius = clamp_pattern_radius(radius.value)]
             IN  IF ~Comparable(vertical) THEN [raised |-> TRUE, config |-> c1]
                 ELSE LET c2 == [c1 EXCEPT
                                    !.vertical_range = range_at_least_one(vertical.value)]
                      IN  IF ~Comparable(horizontal) THEN [raised |-> TRUE, config |-> c2]
                          ELSE [raised |-> FALSE,
                                config |->
                                  [c2 EXCEPT
                                     !.vertical_range = range_at_most_max(@),
                                     !.horizontal_range =
                                        range_at_most_max(
                                            range_at_least_one(horizontal.value))]]

\* The limits part of load_config.
load_limits(cfg, raw) ==
    [raised |-> FALSE,
     config |-> [cfg EXCEPT !.temporary_block_duration =
                    load_temporary_block_duration(
                        Setting(raw.temporary_block_duration, 5))]]

\* load_config on the settings raw of the file: the attributes are assigned
\* and validated one after the other; a comparison that raises ends the
\* call and leaves the attributes assigned so far.
load_config(cfg, raw) ==
    LET max_blocks == Setting(raw.max_blocks, DEFAULT_MAX_BLOCKS)
        min_vein_size == Setting(raw.min_vein_size, 2)
        cooldown_ms == Setting(raw.cooldown_ms, COOLDOWN_MS)
        batch_size == Setting(raw.batch_size, BATCH_SIZE)
        c1 == [cfg EXCEPT !.max_blocks = IF Comparable(max_blocks)
                                         THEN load_max_blocks(max_blocks.value)
                                         ELSE max_blocks]
        c2 == [c1 EXCEPT !.min_vein_size = IF Comparable(min_vein_size)
                                           THEN load_min_vein_size(min_vein_size.value)
                                           ELSE min_vein_size]
        c3 == [c2 EXCEPT !.cooldown_ms = IF Comparable(cooldown_ms)
                                         THEN load_cooldown_ms(cooldown_ms.value)
                                         ELSE cooldown_ms]
        c4 == [c3 EXCEPT !.batch_size = IF Comparable(batch_size)
                                        THEN load_batch_size(batch_size.value)
                                        ELSE batch_size]
    IN  IF ~Comparable(max_blocks) THEN [raised |-> TRUE, config |-> c1]
        ELSE IF ~Comparable(min_vein_size) THEN [raised |-> TRUE, config |-> c2]
        ELSE IF ~Comparable(cooldown_ms) THEN [raised |-> TRUE, config |-> c3]
        ELSE IF ~Comparable(batch_size) THEN [raised |-> TRUE, config |-> c4]
        ELSE LET pattern == load_pattern(c4, raw)
             IN  IF pattern.raised THEN pattern ELSE load_limits(pattern.config, raw)

\* The integers tried for every setting lie around the limits of the tests.
RawInts == {-2, -1, 0, 1, 6, 7, 16, 17, 100, 101, 4096, 4097}

RawValues == {AbsentRaw, TextRaw} \cup {IntRaw(n) : n \in RawInts}

ConfigKeys ==
    {"max_blocks", "min_vein_size", "cooldown_ms", "batch_size", "pattern_radius",
     "vertical_range", "horizontal_range", "temporary_block_duration"}

\* The files that set at most two of the settings.
RawConfigs ==
    {[k \in ConfigKeys |-> IF k = set[1] THEN set[3]
                           ELSE IF k = set[2] THEN set[4]
                           ELSE AbsentRaw] :
        set \in ConfigKeys \X ConfigKeys \X RawValues \X RawValues}

InitConfig ==
    /\ world = [p \in SmallGrid |-> IRON_ORE]
    /\ config \in GateConfigs
    /\ start = <<0, MAX_WORLD_HEIGHT, 0>>
    /\ fv = FvInit(start)
    /\ neighbor_offsets = None
    /\ HandlerIdle

\* load_config is called by reload_configuration, on the configuration of
\* an earlier load.
LoadConfig(raw) ==
    /\ deviations < MaxDeviations
    /\ deviations' = deviations + 1
    /\ LET loaded == load_config(config, raw)
       IN  /\ config' = loaded.config
           /\ ev' = [ id |-> 0, exit |-> "load_config", raw |-> raw,
                      raised |-> loaded.raised ]
    /\ UNCHANGED <<world, start, fv, now, pluginVars, disabled_players, op, events,
                   ticks, neighbor_offsets, cooldown_notices, daily_reset_scheduled, statsVars>>

NextConfig == \E raw \in RawConfigs : LoadConfig(raw)

SpecConfig == InitConfig /\ [][NextConfig]_vars

----------------------------------------------------------------------------
(* The rate window: SpecRate                                               *)
(* One more break event than in Spec under a limit of two operations per   *)
(* minute; every operation takes one block of a line of ore, and the time  *)
(* steps are half a rate window and a whole one.                           *)

MaxRateEvents == 4

RateDeltas == {30000, 60000}

RateWindowConfig ==
    [DefaultConfig EXCEPT !.max_blocks = 1, !.min_vein_size = 1, !.cooldown_ms = 0,
                          !.max_veins_per_minute = 2, !.temporary_block_duration = 1]

RateEvents == {NormalEvent("p1", b) : b \in LineGrid} \cup {NormalEvent("p2", <<0, 64, 0>>)}

InitRate ==
    /\ world = [p \in LineGrid |-> IRON_ORE]
    /\ config = RateWindowConfig
    /\ start = WideStart
    /\ fv = FvInit(start)
    /\ neighbor_offsets = None
    /\ HandlerIdle

NextRate ==
    \/ \E e \in RateEvents : BreakEventWithin(e, MaxRateEvents)
    \/ \E outcome \in {"ok", "clear_raises"} : ProcessBlock(outcome)
    \/ FinishVein("none", FALSE)
    \/ \E d \in RateDeltas : TickWithin(d, MaxRateEvents)

SpecRate == InitRate /\ [][NextRate]_vars

----------------------------------------------------------------------------
(* The daily counters: SpecDaily and SpecDailyReload                       *)
(* The handler with the task reset_daily_limits, which the scheduler runs  *)
(* every 1728000 ticks once on_enable has handed it over.  In SpecDaily    *)
(* the limits are those of the start; in SpecDailyReload the plugin starts *)
(* with or without limits and a reload turns them on or off.               *)

\* A faulty variant of reset_daily_limits: the block counters are kept.
reset_daily_limits_veins_only(self) ==
    [self EXCEPT !.daily_vein_count = EmptyDict]

\* self.daily_vein_count.clear(); self.daily_block_count.clear()
reset_daily_limits(self) ==
    [self EXCEPT !.daily_vein_count = EmptyDict, !.daily_block_count = EmptyDict]

\* The scheduler runs the task between two calls of the handler.
ResetDailyLimits ==
    /\ op.pc = "idle"
    /\ daily_reset_scheduled
    /\ SetSelf(reset_daily_limits(Self))
    /\ UNCHANGED <<world, config, start, fv, now, disabled_players, op, ev, events,
                   deviations, ticks, neighbor_offsets, cooldown_notices,
                   daily_reset_scheduled, statsVars>>

DailyEvents == {NormalEvent("p1", b) : b \in LineGrid} \cup {NormalEvent("p2", <<0, 64, 0>>)}

InitDaily ==
    /\ world \in LineWorlds
    /\ config \in {DailyVeinsConfig, DailyBlocksConfig}
    /\ start = WideStart
    /\ fv = FvInit(start)
    /\ neighbor_offsets = None
    /\ HandlerIdle

NextDaily ==
    \/ \E e \in DailyEvents : BreakEvent(e)
    \/ \E outcome \in {"ok", "clear_raises"} : ProcessBlock(outcome)
    \/ FinishVein("none", FALSE)
    \/ ResetDailyLimits
    \/ Reload(config)

SpecDaily == InitDaily /\ [][NextDaily]_vars

\* DailyVeinsConfig with enable-limits: false.
NoLimitsConfig == [DailyVeinsConfig EXCEPT !.enable_limits = FALSE]

InitDailyReload ==
    /\ world \in LineWorlds
    /\ config \in {NoLimitsConfig, DailyVeinsConfig}
    /\ start = WideStart
    /\ fv = FvInit(start)
    /\ neighbor_offsets = None
    /\ HandlerIdle

NextDailyReload ==
    \/ \E e \in DailyEvents : BreakEvent(e)
    \/ ProcessBlock("ok")
    \/ FinishVein("none", FALSE)
    \/ ResetDailyLimits
    \/ \E c \in {NoLimitsConfig, DailyVeinsConfig} : Reload(c)

\* The scheduler runs a task it was handed again and again.
SpecDailyReload ==
    InitDailyReload /\ [][NextDailyReload]_vars /\ WF_vars(ResetDailyLimits)

----------------------------------------------------------------------------
(* The toggle commands: SpecToggle                                         *)
(* The handler with the commands "/veinminer toggle", "on" and "off" and   *)
(* with reloads between its calls.                                         *)

\* The console: a sender without unique_id.
Console == "console"

Subcommands == {"toggle", "on", "off"}

\* plugin.disabled_players after the subcommand sub of a sender with unique_id.
toggle_disabled_players(disabled, uuid, sub) ==
    IF sub = "toggle"
    THEN IF uuid \in disabled THEN disabled \ {uuid} ELSE disabled \cup {uuid}
    ELSE IF sub = "on"
    THEN IF uuid \notin disabled THEN disabled ELSE disabled \ {uuid}
    ELSE IF uuid \in disabled THEN disabled ELSE disabled \cup {uuid}

\* handle_command for the subcommands of the toggle: the sender needs
\* veinminer.command, a unique_id and veinminer.toggle.
handle_command(disabled, sender, sub, may_command, may_toggle) ==
    IF ~may_command THEN disabled
    ELSE IF sender = Console THEN disabled
    ELSE IF ~may_toggle THEN disabled
    ELSE toggle_disabled_players(disabled, sender, sub)

\* A command is run between two calls of the handler.
Command(sender, sub, may_command, may_toggle) ==
    /\ op.pc = "idle"
    /\ disabled_players' = handle_command(disabled_players, sender, sub,
                                          may_command, may_toggle)
    /\ ev' = [ id |-> 0, exit |-> "command", sender |-> sender, sub |-> sub,
               permitted |-> may_command /\ may_toggle ]
    /\ UNCHANGED <<world, config, start, fv, now, pluginVars, op, events, deviations,
                   ticks, neighbor_offsets, cooldown_notices, daily_reset_scheduled, statsVars>>

InitToggle ==
    /\ world \in LineWorlds
    /\ config = RateWindowConfig
    /\ start = WideStart
    /\ fv = FvInit(start)
    /\ neighbor_offsets = None
    /\ HandlerIdle

NextToggle ==
    \/ \E e \in RateEvents : BreakEvent(e)
    \/ ProcessBlock("ok")
    \/ FinishVein("none", FALSE)
    \/ \E sender \in Players \cup {Console} : \E sub \in Subcommands :
          \E may_command, may_toggle \in BOOLEAN :
             Command(sender, sub, may_command, may_toggle)
    \/ Reload(config)

SpecToggle == InitToggle /\ [][NextToggle]_vars

----------------------------------------------------------------------------
(* The cancelling of the event: SpecCancel                                 *)
(* The handler under every activation mode, with and without a disabled    *)
(* world, and with a min-vein-size below and above the size of the veins.  *)

CancelConfigs ==
    {[DailyVeinsConfig EXCEPT !.min_vein_size = m, !.activation_mode = a,
                              !.disabled_worlds = dw] :
        m \in {1, 3}, a \in {"sneak", "stand", "always"}, dw \in {{}, {"nether"}}}

InitCancel ==
    /\ world \in LineWorlds
    /\ config \in CancelConfigs
    /\ start = WideStart
    /\ fv = FvInit(start)
    /\ neighbor_offsets = None
    /\ HandlerIdle

NextCancel ==
    \/ \E e \in Events : BreakEvent(e)
    \/ \E outcome \in {"ok", "clear_raises"} : ProcessBlock(outcome)
    \/ \E raises \in FinishRaises : \E notice_raises \in BOOLEAN :
          FinishVein(raises, notice_raises)

SpecCancel == InitCancel /\ [][NextCancel]_vars

----------------------------------------------------------------------------
(* The statistics tracker on its own: SpecStats                            *)
(* Init draws the statistics settings; the step is one call of             *)
(* record_vein_mine for a player and a number of blocks.                   *)

\* Every player is recorded at most MaxRecords times, with at most
\* MaxRecordCount blocks each time.
MaxRecords == 3
MaxRecordCount == 3

\* statistics.milestones.thresholds: in order, out of order, with a
\* threshold listed twice, and not configured.
StatsThresholds == {<<2, 4>>, <<4, 2>>, <<3, 3>>, <<>>}

NoLog == [counts |-> <<>>, announced |-> <<>>]

InitStats ==
    /\ world = [p \in LineGrid |-> IRON_ORE]
    /\ config = DefaultConfig
    /\ start = WideStart
    /\ fv = FvInit(start)
    /\ neighbor_offsets = None
    /\ now = StartTime
    /\ last_vein_mine = EmptyDict
    /\ processing_vein = {}
    /\ last_error_message = EmptyDict
    /\ last_cooldown_message = EmptyDict
    /\ daily_vein_count = EmptyDict
    /\ daily_block_count = EmptyDict
    /\ minute_vein_count = EmptyDict
    /\ blocked_players = EmptyDict
    /\ tool_validation_cache = EmptyCache
    /\ disabled_players = {}
    /\ op = IdleOp
    /\ ev = NoEvent
    /\ events = 0
    /\ deviations = 0
    /\ ticks = 0
    /\ cooldown_notices = EmptyDict
    /\ daily_reset_scheduled = config.enable_limits
    /\ \E enabled, milestones_enabled \in BOOLEAN : \E thresholds \in StatsThresholds :
          stats_tracker = NewTracker(enabled, milestones_enabled, thresholds)
    /\ tracker_log = EmptyDict

\* self.stats_tracker.record_vein_mine(player, successful_breaks)
RecordVeinMine(uuid, block_count) ==
    /\ Len(Get(tracker_log, uuid, NoLog).counts) < MaxRecords
    /\ LET r == record_vein_mine(stats_tracker, uuid, block_count)
           log == Get(tracker_log, uuid, NoLog)
       IN  /\ stats_tracker' = r.tracker
           /\ tracker_log' = Put(tracker_log, uuid,
                                 [ counts |-> Append(log.counts, block_count),
                                   announced |-> log.announced \o r.announced ])
           /\ ev' = [ id |-> 0, exit |-> "record_vein_mine", player |-> uuid,
                      block_count |-> block_count,
                      before |-> Get(stats_tracker.player_stats, uuid, NewPlayerStats),
                      after |-> Get(r.tracker.player_stats, uuid, NewPlayerStats),
                      announced |-> r.announced ]
    /\ UNCHANGED <<world, config, start, fv, now, pluginVars, disabled_players, op,
                   events, deviations, ticks, neighbor_offsets, cooldown_notices,
                   daily_reset_scheduled>>

NextStats ==
    \E uuid \in Players : \E block_count \in 1..MaxRecordCount :
        RecordVeinMine(uuid, block_count)

SpecStats == InitStats /\ [][NextStats]_vars

----------------------------------------------------------------------------
(* Properties of the rewards                                               *)

\* The short ids a block id stands for.
IdOf(block_id) == {s \in ShortIds : block_id \in {s, "minecraft:" \o s}}

\* Blocks that fortune does not apply to.
Logs ==
    {"oak_log", "birch_log", "spruce_log", "jungle_log", "acacia_log", "dark_oak_log",
     "crimson_stem", "warped_stem", "mangrove_log", "cherry_log"}

\* Single-drop ores that fortune applies to.
SingleDropOres ==
    {"coal_ore", "deepslate_coal_ore", "iron_ore", "diamond_ore", "emerald_ore",
     "quartz_ore"}

\* The amounts the draws of get_fortune_drop_amount can give.
PossibleAmounts(block_id, fortune_level) ==
    {get_fortune_drop_amount(block_id, fortune_level, b, r) :
        b \in BaseCounts(normalize_block_id(block_id)),
        r \in BonusRolls(normalize_block_id(block_id), fortune_level)}

\* C25: get_fortune_drop_amount returns at least 1; for a single-drop ore
\* that fortune applies to (coal ore) and a fortune level L > 0 the result
\* lies in 1..L+1 and every value of that range is possible; for a fortune
\* level <= 0, a log or ancient debris the result is the base count.
C25_FortuneAmount ==
    ev.exit = "fortune" =>
        /\ ev.amount >= 1
        /\ \A s \in IdOf(ev.block_id) :
              /\ (s \in SingleDropOres /\ ev.fortune_level > 0) =>
                    /\ ev.base_count = 1
                    /\ ev.amount \in 1..(ev.fortune_level + 1)
                    /\ PossibleAmounts(ev.block_id, ev.fortune_level)
                         = 1..(ev.fortune_level + 1)
              /\ (ev.fortune_level <= 0 \/ s \in Logs \cup {"ancient_debris"}) =>
                    ev.amount = ev.base_count

\* Coal ore at fortune 3 dropped 4 items.
C25_Witness ==
    /\ ev.exit = "fortune"
    /\ ev.block_id = "minecraft:coal_ore"
    /\ ev.fortune_level = 3
    /\ ev.bonus_roll = 3
    /\ ev.amount = 4

\* C26: for every block that is no leaf, mined with silk touch,
\* calculate_block_rewards returns exactly one item of the block's own
\* identity (the unlit form for lit_redstone_ore and
\* lit_deepslate_redstone_ore) and zero XP, whatever the fortune level and
\* the auto-smelt settings; for a leaf mined with shears or silk touch it
\* returns exactly one of that leaf block and zero XP.
C26_SilkTouch ==
    ev.exit = "rewards" =>
        \A s \in IdOf(ev.block_type) :
            LET leaf == s \in {"oak_leaves", "spruce_leaves", "birch_leaves",
                               "jungle_leaves", "acacia_leaves", "dark_oak_leaves",
                               "mangrove_leaves", "cherry_leaves", "azalea_leaves"}
                own == IF s = "lit_redstone_ore" THEN "minecraft:redstone_ore"
                       ELSE IF s = "lit_deepslate_redstone_ore"
                       THEN "minecraft:deepslate_redstone_ore"
                       ELSE "minecraft:" \o s
                kept == \/ ~leaf /\ ev.tool.silk_touch > 0
                        \/ leaf /\ (ev.tool.silk_touch > 0
                                     \/ ev.tool.type = "minecraft:shears")
            IN  kept =>
                    /\ DOMAIN ev.drops = {own}
                    /\ ev.drops[own] = 1
                    /\ ev.xp = 0
                    /\ ev.smelt_xp = 0

\* A lit redstone ore was mined with silk touch and fortune 3 while
\* auto-smelt was enabled.
C26_Witness ==
    /\ ev.exit = "rewards"
    /\ ev.tool.silk_touch > 0
    /\ ev.tool.fortune = 3
    /\ config.auto_smelt_enabled
    /\ ev.block_type = "minecraft:lit_redstone_ore"
    /\ ev.drops = Put(EmptyDict, "minecraft:redstone_ore", 1)

\* The blocks of the fixed smeltable-block table.
Smeltable ==
    {"iron_ore", "deepslate_iron_ore", "gold_ore", "deepslate_gold_ore",
     "nether_gold_ore", "copper_ore", "deepslate_copper_ore", "ancient_debris"}

\* Auto-smelt is enabled, there is no silk touch, the fortune requirement
\* is met if configured, the block is smeltable and the whitelist is empty
\* or holds the block.
Eligible(c, s, silk_touch_level, fortune_level) ==
    /\ c.auto_smelt_enabled
    /\ silk_touch_level = 0
    /\ c.auto_smelt_require_fortune => fortune_level > 0
    /\ s \in Smeltable
    /\ c.auto_smelt_whitelist = {} \/ s \in c.auto_smelt_whitelist

\* C27: should_auto_smelt returns true if and only if auto-smelt is
\* enabled, the silk touch level is 0, the fortune level is above 0 whenever
\* require-fortune is configured, the block is in the smeltable-block table
\* and the whitelist is empty or contains the block; a block mined without
\* silk touch that is no leaf drops the smelted output when it is true, and
\* otherwise the item of the raw-drop mapping, an unmapped block itself.
C27_AutoSmelt ==
    /\ ev.exit = "auto_smelt" =>
          \A s \in IdOf(ev.block_id) :
              ev.result <=> Eligible(config, s, ev.silk_touch_level, ev.fortune_level)
    /\ (ev.exit = "rewards" /\ ev.tool.silk_touch = 0) =>
          \A s \in IdOf(ev.block_type) \ (DOMAIN sapling_drops \cup {"azalea_leaves"}) :
              DOMAIN ev.drops =
                  { IF Eligible(config, s, 0, ev.tool.fortune) THEN auto_smelt_outputs[s]
                    ELSE IF s \in DOMAIN ore_drops THEN ore_drops[s]
                    ELSE "minecraft:" \o s }

\* Gold ore was smelted under a whitelist that holds it and a fortune
\* requirement that the tool meets.
C27_Witness ==
    /\ ev.exit = "rewards"
    /\ ev.block_type = "minecraft:gold_ore"
    /\ ev.tool.silk_touch = 0
    /\ ev.tool.fortune = 3
    /\ config.auto_smelt_enabled
    /\ config.auto_smelt_require_fortune
    /\ config.auto_smelt_whitelist = {"gold_ore", "stone"}
    /\ DOMAIN ev.drops = {"minecraft:gold_ingot"}

\* C28: for every block and tool, is_proper_tool returns the value a
\* recomputation gives, whether it answers from tool_validation_cache or
\* not, across calls, runs of the cleanup and reloads; every entry of the
\* cache holds the recomputed value.
C28_CacheTransparent ==
    /\ ev.exit = "proper_tool" => ev.result = ComputeProperTool(ev.block_id, ev.tool)
    /\ \A block_id \in CacheBlocks : \A tool \in CacheTools :
          LET cache_key == block_id \o ":" \o (IF tool = NoTool THEN "hand" ELSE tool.type)
          IN  cache_key \in DOMAIN tool_validation_cache.known =>
                  tool_validation_cache.known[cache_key]
                      = ComputeProperTool(block_id, tool)

\* A call was answered from the cache, with the answer that the tool is
\* wrong, after the cleanup had cleared a full cache and the configuration
\* had been reloaded.
C28_Witness ==
    /\ ev.exit = "proper_tool"
    /\ ev.hit
    /\ ~ev.result
    /\ ticks > 0
    /\ deviations > 0
    /\ tool_validation_cache.others = 0

\* The players who were sent a second notice.
NoticedTwice == {p \in DOMAIN cooldown_notices : cooldown_notices[p].gap # -1}

\* An event within the cooldown is rejected by the cooldown: no search, no
\* block cleared, no state changed but the time of the last notice.
CooldownStillRejects ==
    (/\ Returns
     /\ "cooldown" \in Range(ev.checks)
     /\ ev.time - LastMine < config.cooldown_ms)
        => /\ ev.exit = "cooldown"
           /\ ~ev.searched
           /\ ~Processed
           /\ ev.world_after = ev.world_before
           /\ ev.after.last_vein_mine = ev.before.last_vein_mine

\* C29 as stated: two cooldown-active notices sent to the same player are
\* at least 1000 ms apart, and every event within the cooldown is rejected.
C29_AsStated ==
    /\ \A p \in NoticedTwice : cooldown_notices[p].gap >= 1000
    /\ CooldownStillRejects

\* C29, amended: two cooldown-active notices sent to the same player with
\* no reload of the configuration between them are more than 1000 ms
\* apart, and every event within the cooldown is rejected.
C29_NoticeThrottled ==
    /\ \A p \in NoticedTwice :
          ~cooldown_notices[p].reloaded => cooldown_notices[p].gap > COOLDOWN_NOTICE_MS
    /\ CooldownStillRejects

\* The fourth event was rejected by the cooldown and its player was sent a
\* second notice, with no reload since the first.
C29_Witness ==
    /\ Returns
    /\ ev.exit = "cooldown"
    /\ ev.msgs = <<"cooldown-active">>
    /\ ev.player \in NoticedTwice
    /\ ~cooldown_notices[ev.player].reloaded
    /\ cooldown_notices[ev.player].time = ev.time
    /\ events = MaxCooldownEvents

\* The file of the latest load_config call holds integers only.
IntegersOnly ==
    /\ ev.exit = "load_config"
    /\ \A k \in ConfigKeys : ev.raw[k].kind # "str"

\* The value of max_blocks documented for the setting of the file.
DocumentedMaxBlocks(raw) ==
    IF raw.kind = "absent" THEN 64
    ELSE IF raw.value = -1 THEN 4096
    ELSE IF raw.value \in 1..4096 THEN raw.value
    ELSE 64

\* C30: after load_config on integer values, pattern_radius is in 1..6,
\* both ranges are in 1..16, max_blocks is in 1..4096 (-1 gives 4096, any
\* other value out of range 64), batch_size is in 1..100, cooldown_ms is
\* at least 0, min_vein_size and temporary_block_duration are at least 1,
\* and the call did not raise.
C30_Clamped ==
    IntegersOnly =>
        /\ ~ev.raised
        /\ config.pattern_radius \in 1..6
        /\ config.vertical_range \in 1..16
        /\ config.horizontal_range \in 1..16
        /\ config.max_blocks \in 1..4096
        /\ config.max_blocks = DocumentedMaxBlocks(ev.raw.max_blocks)
        /\ config.batch_size \in 1..100
        /\ config.cooldown_ms >= 0
        /\ config.min_vein_size >= 1
        /\ config.temporary_block_duration >= 1

\* A file with max-blocks 4097 and a radius of 7 was loaded.
C30_Witness ==
    /\ IntegersOnly
    /\ ev.raw.max_blocks = IntRaw(4097)
    /\ ev.raw.pattern_radius = IntRaw(7)
    /\ config.max_blocks = 64
    /\ config.pattern_radius = 6

\* The call searched, and its vein is within max_blocks and was turned
\* away neither as abnormally large nor as larger than max_blocks.
VeinWithinCap ==
    (Returns /\ ev.searched) =>
        /\ Cardinality(ev.vein) <= config.max_blocks
        /\ ~(Cardinality(ev.vein) > 2 * config.max_blocks)
        /\ ev.exit \notin {"abnormal_size", "not_processed"}

InWindow(p, t) ==
    LET window == minute_vein_count[p]
    IN  Cardinality({i \in 1..Len(window) : t - 60000 < window[i] /\ window[i] <= t})

\* C32: under a fixed positive max_veins_per_minute, for every player and
\* every time t, at most max_veins_per_minute of the player's recorded
\* operations have a timestamp in (t - 60000, t]; the windows to look at
\* are those that end at a recorded timestamp or now.
C32_WindowBounded ==
    config.max_veins_per_minute > 0 =>
        \A p \in DOMAIN minute_vein_count :
            \A t \in Range(minute_vein_count[p]) \cup {now} :
                InWindow(p, t) <= config.max_veins_per_minute

\* A player whose window is full, with an operation recorded after a time
\* step in it, was turned away by the rate limit.
C32_Witness ==
    /\ Returns
    /\ ev.exit = "rate_limit"
    /\ InWindow(ev.player, now) = config.max_veins_per_minute
    /\ Len(minute_vein_count[ev.player]) = config.max_veins_per_minute
    /\ \E i \in 1..Len(minute_vein_count[ev.player]) :
          minute_vein_count[ev.player][i] > StartTime

\* The call that has returned found an expired temporary block of its player.
BlockExpired ==
    /\ Returns
    /\ ev.player \in DOMAIN ev.before.blocked_players
    /\ ev.time >= ev.before.blocked_players[ev.player]

\* C34: the first break event of a player after the player's temporary
\* block has expired is not rejected by the rate limit and leaves the
\* player without a temporary block; the timestamps recorded before the
\* block are not in the rate window after the call.
C34_FreshAfterBlock ==
    BlockExpired =>
        /\ ev.exit # "rate_limit"
        /\ ev.player \notin DOMAIN ev.after.blocked_players
        /\ ev.player \in DOMAIN ev.after.minute_vein_count =>
              \A t \in Range(ev.after.minute_vein_count[ev.player]) : t >= ev.time

\* A player with a full rate window was blocked, and the first event after
\* the block had expired was vein-mined.
C34_Witness ==
    /\ BlockExpired
    /\ ev.player \in DOMAIN ev.before.minute_vein_count
    /\ Len(ev.before.minute_vein_count[ev.player]) = config.max_veins_per_minute
    /\ ev.exit = "processed"

\* The players whose break event at time t the cooldown check would reject
\* when the last-operation timestamps are those of the dict d.
InCooldown(d, t) ==
    {p \in Players : CooldownActive([last_vein_mine |-> d], config, p, t)}

\* C36: a run of cleanup_cache leaves every player in cooldown who was in
\* cooldown before it, and changes no rate window, daily counter,
\* temporary block or processing flag.
C36_CleanupKeepsCooldown ==
    [][CleanupCache =>
          /\ InCooldown(last_vein_mine, now) \subseteq InCooldown(last_vein_mine', now)
          /\ UNCHANGED <<minute_vein_count, daily_vein_count, daily_block_count,
                         blocked_players, processing_vein>>]_vars

\* (-dx, -dy, -dz)
Negated(o) == <<0 - o[1], 0 - o[2], 0 - o[3]>>

\* C37: for every configuration the list of neighbor offsets holds
\* (dx, dy, dz) if and only if it holds (-dx, -dy, -dz).
C37_OffsetsSymmetric ==
    neighbor_offsets # None =>
        \A o \in Range(neighbor_offsets) : Negated(o) \in Range(neighbor_offsets)

\* The step is a command of player p, who holds the permissions, with one
\* of the subcommands subs.
CommandOf(p, subs) == \E sub \in subs : Command(p, sub, TRUE, TRUE)

\* C38: a call of the handler for a player who has turned vein mining off
\* searches no vein and clears no block; a player gets into
\* disabled_players by the player's own "off" or "toggle" only and out of
\* it by the player's own "on" or "toggle" only, whatever reloads and
\* commands of other players happen in between.
C38_OffUntilOn ==
    /\ [](Returns /\ ev.player \in disabled_players =>
            /\ ~ev.searched
            /\ ev.vein = {}
            /\ ev.world_after = ev.world_before
            /\ ev.exit \in {"event_cancelled", "temporary_block", "permission", "toggle"})
    /\ [][\A p \in Players :
            /\ (p \in disabled_players /\ p \notin disabled_players')
                  => CommandOf(p, {"on", "toggle"})
            /\ (p \notin disabled_players /\ p \in disabled_players')
                  => CommandOf(p, {"off", "toggle"})
            /\ (p \notin disabled_players /\ CommandOf(p, {"off", "toggle"}))
                  => p \in disabled_players']_vars

\* A player turned vein mining off, the configuration was reloaded, and the
\* player's break event at an ore block was turned away by the toggle while
\* the other player had vein-mined.
C38_Witness ==
    /\ Returns
    /\ ev.exit = "toggle"
    /\ ev.player \in disabled_players
    /\ deviations = 1
    /\ ev.world_before[ev.block] = IRON_ORE
    /\ \E q \in DOMAIN minute_vein_count : q # ev.player

\* The vein of the returned call has min_vein_size members or more and
\* passes the daily limit.
VeinQualifies ==
    /\ ev.searched
    /\ Cardinality(ev.vein) >= config.min_vein_size
    /\ check_daily_limits(ev.before, config, ev.player,
                          Min(Cardinality(ev.vein), config.max_blocks))

\* The returned call has called process_vein_mining.
ProcessingReached == ev.attempts # EmptyDict

\* The plugin has cleared no block and the last-operation timestamp of the
\* caller is as it was.
NothingDone ==
    /\ ev.world_after = ev.world_before
    /\ ev.after.last_vein_mine = ev.before.last_vein_mine

RECURSIVE SumSeq(_)
SumSeq(q) == IF q = <<>> THEN 0 ELSE Head(q) + SumSeq(Tail(q))

\* The largest element of a sequence of counts, 0 for the empty one.
RECURSIVE MaxSeq(_)
MaxSeq(q) == IF q = <<>> THEN 0 ELSE Max(Head(q), MaxSeq(Tail(q)))

NoDuplicates(q) == \A i, j \in 1..Len(q) : i # j => q[i] # q[j]

Count(d, p) == IF p \in DOMAIN d THEN d[p] ELSE 0

\* No counter of the dict d is lower in the dict e.
NotDecreased(d, e) == \A p \in DOMAIN d : Count(e, p) >= d[p]

\* C33: with limits enabled and fixed, every player's daily_vein_count is
\* at most max_veins_per_day and daily_block_count at most
\* max_blocks_per_day; a step that is not the reset task lowers no counter,
\* and the reset task empties both dicts.
C33_DailyBounded ==
    /\ [](config.enable_limits =>
            /\ \A p \in DOMAIN daily_vein_count :
                  daily_vein_count[p] <= config.max_veins_per_day
            /\ \A p \in DOMAIN daily_block_count :
                  daily_block_count[p] <= config.max_blocks_per_day)
    /\ [][\/ /\ NotDecreased(daily_vein_count, daily_vein_count')
             /\ NotDecreased(daily_block_count, daily_block_count')
          \/ /\ ResetDailyLimits
             /\ daily_vein_count' = EmptyDict
             /\ daily_block_count' = EmptyDict]_vars

\* A player whose daily count of operations or of blocks is at its limit
\* was turned away by the daily limit.
C33_Witness ==
    /\ config.enable_limits
    /\ Returns
    /\ ev.exit = "daily_limit"
    /\ \/ Count(daily_vein_count, ev.player) = config.max_veins_per_day
       \/ Count(daily_block_count, ev.player) = config.max_blocks_per_day

\* C35: whenever limits are enabled the reset task is scheduled, and a
\* player turned away by the daily limit is followed by a state with the
\* daily counters cleared.
C35_ResetEventually ==
    /\ [](config.enable_limits => daily_reset_scheduled)
    /\ (Returns /\ ev.exit = "daily_limit")
          ~> (daily_vein_count = EmptyDict /\ daily_block_count = EmptyDict)

====
